---- MODULE Spec2Model ----
(***************************************************************************)
(* StGit stack log (stgit/lib/log.py) over the git object store wrapper    *)
(* (stgit/lib/git.py).                                                     *)
(*                                                                         *)
(* A text is the sequence of its lines and a line a sequence of tokens: a   *)
(* token is a word (a key, a patch name), a digit of a sha1 or of a        *)
(* version number, or one of the separators ":" and " ".  Formatting       *)
(* builds lines and parsing takes them apart the way the Python code does. *)
(***************************************************************************)
EXTENDS Integers, Sequences, FiniteSets, TLC

VARIABLES
    objects,    \* the git object store: objects[i] is the object with sha1 Sha(i)
    gitref,     \* value of refs/heads/<branch>.stgit in the store, 0 = no such ref
    refs,       \* Refs.__refs of the running process: -1 = not yet cached, else the cached value
    stack,      \* the live stack (Stack collaborator): head, applied, unapplied, hidden, patches
    entries,    \* the LogEntry objects written so far, in order of writing
    res,        \* the last call: operation, argument, outcome, and the ref and the size
                \* of the store when it began
    nops,       \* number of operations performed (stack operations, edits of meta)
    meta,       \* metadata text of a log commit to decode
    parsed,     \* result of from_commit on the commit holding meta
    log,        \* undo_state: the cursor entry
    undo_steps, \* undo_state: remaining step count
    trace,      \* undo_state: the entry, count before and count after of each iteration
    refstore,   \* the refs of the store: refstore[r] is the sha1 of ref r, 0 = no such ref
    refcache,   \* Refs.__refs of each process
    pending,    \* the call of Refs each process is in after building its cache
    rres,       \* the last call of Refs: arguments, outcome, cache and store before it
    __commits,  \* Repository.__commits: ObjectCache of Commit objects
    __trees,    \* Repository.__trees: ObjectCache of Tree objects
    next_id,    \* number of Python objects created by the caches
    handed,     \* the objects the Repository has returned: kind, sha1, object
    index_files,\* the temporary index files in the git directory
    ores,       \* the last call of the Repository
    trans,      \* the StackTransaction of a reset
    state,      \* the LogEntry a reset restores
    tres        \* the last reset: arguments, outcome, the transaction before it

vars == <<objects, gitref, refs, stack, entries, res, nops, meta, parsed,
          log, undo_steps, trace, refstore, refcache, pending, rres,
          __commits, __trees, next_id, handed, index_files, ores, trans, state, tres>>

----------------------------------------------------------------------------
(* Bounds *)

MaxApplied == 1
MaxUnapplied == 1
MaxHidden == 1
MaxOver == 1
MaxOps == 2
MaxEntries == 2
MaxEdits == 1
MaxChain == 4
MaxSteps == 2
MaxProcs == 2
MaxRefSha == 2
MaxObjSha == 2
MaxTreeSha == 3
MaxIndexNames == 1
MaxResetNames == 3

(* Program constants *)

_max_parents == 16

----------------------------------------------------------------------------
(* Text helpers: Python str methods on lines of tokens *)

Whitespace == {" ", "\t", "\n"}

RECURSIVE LStrip(_)
LStrip(s) ==
    IF s # <<>> /\ Head(s) \in Whitespace THEN LStrip(Tail(s)) ELSE s

RECURSIVE RStrip(_)
RStrip(s) ==
    IF s # <<>> /\ s[Len(s)] \in Whitespace
    THEN RStrip(SubSeq(s, 1, Len(s) - 1))
    ELSE s

Strip(s) == LStrip(RStrip(s))

\* str.find: index of the first occurrence of tok in s at or after from, 0 if there is none
FindFrom(s, tok, from) ==
    IF \E i \in from..Len(s) : s[i] = tok
    THEN CHOOSE i \in from..Len(s) : s[i] = tok /\ \A j \in from..(i - 1) : s[j] # tok
    ELSE 0

\* str.split(sep) of s[from..]: all the pieces between occurrences of sep
RECURSIVE SplitFrom(_, _, _)
SplitFrom(s, sep, from) ==
    LET i == FindFrom(s, sep, from) IN
    IF i = 0 THEN <<SubSeq(s, from, Len(s))>>
    ELSE <<SubSeq(s, from, i - 1)>> \o SplitFrom(s, sep, i + 1)
Split(s, sep) == SplitFrom(s, sep, 1)

\* str.split(sep, 1): at most one split
Split1(s, sep) ==
    LET i == FindFrom(s, sep, 1) IN
    IF i = 0 THEN <<s>>
    ELSE <<SubSeq(s, 1, i - 1), SubSeq(s, i + 1, Len(s))>>

Range(f) == {f[x] : x \in DOMAIN f}

\* the sequence s and the function f themselves, as values computed once
Tup(s) == s \o <<>>
Fn(f) == f @@ <<>>

\* the elements of a set of integers in ascending order
Sorted(S) ==
    LET rank == Fn([x \in S |-> Cardinality({y \in S : y <= x})])
    IN Tup([k \in 1..Cardinality(S) |-> CHOOSE x \in S : rank[x] = k])

Reverse(s) == [i \in 1..Len(s) |-> s[Len(s) + 1 - i]]

----------------------------------------------------------------------------
(* The object store *)

\* decimal digits; int(): an optional sign and at least one decimal digit
Digits == <<"0", "1", "2", "3", "4", "5", "6", "7", "8", "9">>
DigitVal(c) == (CHOOSE d \in 1..10 : Digits[d] = c) - 1
IsDigits(s) == s # <<>> /\ \A i \in 1..Len(s) : s[i] \in Range(Digits)
RECURSIVE DigitsVal(_)
DigitsVal(s) ==
    IF s = <<>> THEN 0 ELSE 10 * DigitsVal(SubSeq(s, 1, Len(s) - 1)) + DigitVal(s[Len(s)])
IsInt(s) ==
    \/ IsDigits(s)
    \/ s # <<>> /\ s[1] \in {"-", "+"} /\ IsDigits(Tail(s))
IntVal(s) ==
    IF s[1] = "-" THEN 0 - DigitsVal(Tail(s))
    ELSE IF s[1] = "+" THEN DigitsVal(Tail(s))
    ELSE DigitsVal(s)

\* the name (sha1) of object i: its digits
RECURSIVE Sha(_)
Sha(i) == IF i < 10 THEN <<Digits[i + 1]>> ELSE Sha(i \div 10) \o <<Digits[(i % 10) + 1]>>

\* Repository.get_commit / get_tree: the cached Commit / Tree object of a sha1, created
\* without looking at the store; 0 stands for the object of a string that is no sha1
get_commit(sha1) ==
    IF IsDigits(sha1) /\ Sha(DigitsVal(sha1)) = sha1 THEN DigitsVal(sha1) ELSE 0
get_tree(sha1) == get_commit(sha1)

CommitObj(tree, parents, message) ==
    [kind |-> "commit", tree |-> tree, parents |-> parents, message |-> message]
BlobObj(bytes) == [kind |-> "blob", bytes |-> bytes]
TreeObj(ents) == [kind |-> "tree", entries |-> ents]

Stored(objs, obj) == \E i \in 1..Len(objs) : objs[i] = obj
Lookup(objs, obj) == CHOOSE i \in 1..Len(objs) : objs[i] = obj

\* git hash-object / mktree / commit-tree: content-addressed write
Put(objs, obj) ==
    IF Stored(objs, obj)
    THEN [objects |-> objs, id |-> Lookup(objs, obj)]
    ELSE [objects |-> Append(objs, obj), id |-> Len(objs) + 1]

\* Repository.commit for CommitData
commit(objs, tree, parents, message) == Put(objs, CommitObj(tree, parents, message))

\* Repository.commit for BlobData and TreeData
commit_blob(objs, bytes) == Put(objs, BlobObj(bytes))
commit_tree(objs, ents) == Put(objs, TreeObj(ents))

\* Repository.cat_object for a commit: the lines printed by git cat-file -p
cat_object(objs, c) ==
    << <<"tree", " ">> \o Sha(objs[c].tree) >>
    \o [i \in 1..Len(objs[c].parents) |-> <<"parent", " ">> \o Sha(objs[c].parents[i])]
    \o << <<"author", " ", "A">>, <<"committer", " ", "C">>, <<>> >>
    \o objs[c].message

\* CommitData.parse: header lines up to the first blank line, then the message
HeaderKeys == {"tree", "parent", "author", "committer"}
NoCommitData == [err |-> "AssertionError", tree |-> 0, parents |-> <<>>, message |-> <<>>]

\* the tree and the parents named by the header lines
TreeOf(trees) == IF trees = <<>> THEN 0 ELSE get_tree(LStrip(Tail(trees[Len(trees)])))
ParentsOf(parents) == Tup([i \in 1..Len(parents) |-> get_commit(LStrip(Tail(parents[i])))])

parse_headers(lines, first, headers) ==
    IF \E i \in 1..Len(headers) : headers[i][1] \notin HeaderKeys
    THEN NoCommitData
    ELSE [err |-> "none",
          tree |-> TreeOf(SelectSeq(headers, LAMBDA h : h[1] = "tree")),
          parents |-> ParentsOf(SelectSeq(headers, LAMBDA h : h[1] = "parent")),
          message |-> SubSeq(lines, first + 1, Len(lines))]

parse_upto(lines, first) ==
    parse_headers(lines, first, Tup([i \in 1..(first - 1) |-> Strip(lines[i])]))

CommitData_parse(lines) ==
    IF \A i \in 1..Len(lines) : Strip(lines[i]) # <<>>
    THEN NoCommitData
    ELSE parse_upto(lines, CHOOSE i \in 1..Len(lines) :
                               /\ Strip(lines[i]) = <<>>
                               /\ \A j \in 1..(i - 1) : Strip(lines[j]) # <<>>)

\* Commit.data
data(objs, c) == CommitData_parse(cat_object(objs, c))

\* the commits reachable from the commits of todo through parent links
RECURSIVE Ancestors(_, _, _)
Ancestors(objs, todo, seen) ==
    IF todo = {} THEN seen
    ELSE Ancestors(objs,
                   UNION {Range(objs[c].parents) : c \in todo} \ (seen \cup todo),
                   seen \cup todo)

----------------------------------------------------------------------------
(* LogEntry *)

\* A LogEntry is a record.  _prev is None, the Commit of the previous entry (a record with
\* the field commit only) or the previous LogEntry; commit and simplified are 0 until the
\* entry is written or decoded.
LogEntry(prev, head, applied, unapplied, hidden, patches, message) ==
    [_prev |-> prev, head |-> head, applied |-> applied, unapplied |-> unapplied,
     hidden |-> hidden, patches |-> patches, message |-> message,
     commit |-> 0, simplified |-> 0]

all_patches(e) == e.applied \o e.unapplied \o e.hidden

None == [commit |-> 0]
CommitOnly(c) == [commit |-> c]

\* LogEntry.from_stack
from_stack(prev, stk, message) ==
    LogEntry(prev, stk.head, stk.applied, stk.unapplied, stk.hidden,
             Fn([pn \in Range(stk.applied \o stk.unapplied \o stk.hidden) |-> stk.patches[pn]]),
             message)

\* the value of a failed parse
Failed(err) ==
    [err |-> err, _prev |-> None, head |-> 0, applied |-> <<>>, unapplied |-> <<>>,
     hidden |-> <<>>, patches |-> <<>>]

\* values of the dictionary `parsed`: a str or a list of lines
StrVal(val) == [list |-> FALSE, str |-> val, items |-> <<>>]
ListVal(items) == [list |-> TRUE, str |-> <<>>, items |-> items]
DictSet(d, key, val) == Fn([k \in DOMAIN d \cup {key} |-> IF k = key THEN val ELSE d[k]])

Min(S) == CHOOSE x \in S : \A y \in S : x <= y
Max(S) == CHOOSE x \in S : \A y \in S : y <= x

\* One line of the loop over the metadata lines (log.py 197-206): an indented line is
\* an item, any other line splits at its first colon into a key and a value
KeyLine(parts) ==
    [indented |-> FALSE, split |-> Len(parts) = 2, item |-> <<>>,
     key |-> IF Len(parts) = 2 THEN Strip(parts[1]) ELSE <<>>,
     val |-> IF Len(parts) = 2 THEN Strip(parts[2]) ELSE <<>>]
Line(line) ==
    IF line # <<>> /\ line[1] = " "
    THEN [indented |-> TRUE, split |-> TRUE, item |-> Strip(line), key |-> <<>>, val |-> <<>>]
    ELSE KeyLine(Split1(line, ":"))

\* the line that set `key` when line i is read: the nearest key line above, 0 if none
KeyAbove(ls) ==
    Tup([i \in 1..Len(ls) |->
            IF \A j \in 1..(i - 1) : ls[j].indented THEN 0
            ELSE Max({j \in 1..(i - 1) : ~ls[j].indented})])

\* what reading line i raises: an indented line with no key above fails the assert, one
\* under a key with a value finds a str without append, a line without colon fails the
\* unpacking
LineErr(ls, above, i) ==
    IF ls[i].indented
    THEN IF above[i] = 0 THEN "AssertionError"
         ELSE IF ls[above[i]].val # <<>> THEN "AttributeError"
         ELSE "none"
    ELSE IF ~ls[i].split THEN "ValueError" ELSE "none"

ItemsAt(ls, is) == Tup([m \in 1..Len(is) |-> ls[is[m]].item])

\* parsed[key] after the loop, for the last line j that assigned it
ValueAt(ls, above, j) ==
    IF ls[j].val # <<>> THEN StrVal(ls[j].val)
    ELSE ListVal(ItemsAt(ls, Sorted({i \in 1..Len(ls) : ls[i].indented /\ above[i] = j})))

Parsed(ls, above) ==
    Fn([k \in {ls[j].key : j \in {i \in 1..Len(ls) : ~ls[i].indented}} |->
           ValueAt(ls, above, Max({j \in 1..Len(ls) : ~ls[j].indented /\ ls[j].key = k}))])

parse_lines_under(ls, above) ==
    IF \E i \in 1..Len(ls) : LineErr(ls, above, i) # "none"
    THEN [err |-> LineErr(ls, above, Min({i \in 1..Len(ls) : LineErr(ls, above, i) # "none"})),
          d |-> <<>>]
    ELSE [err |-> "none", d |-> Parsed(ls, above)]

parse_lines_of(ls) == parse_lines_under(ls, KeyAbove(ls))

\* the loop over the metadata lines (log.py 195-206): parsed, or the first failure
parse_lines(lines) == parse_lines_of(Tup([i \in 1..Len(lines) |-> Line(lines[i])]))

\* The loop over the entries of one of Applied, Unapplied and Hidden (log.py 216-219):
\* an entry that does not split in two at its colons fails the unpacking; a name listed
\* again gets the commit of its last entry.
parse_entry_names(parts, pn, patches) ==
    [err |-> "none",
     names |-> pn,
     patches |-> Fn([name \in DOMAIN patches \cup Range(pn) |->
                        IF name \in Range(pn)
                        THEN get_commit(Strip(parts[Max({i \in 1..Len(pn) : pn[i] = name})][2]))
                        ELSE patches[name]])]

parse_entry_parts(parts, patches) ==
    IF \E i \in 1..Len(parts) : Len(parts[i]) # 2
    THEN [err |-> "ValueError", names |-> <<>>, patches |-> patches]
    ELSE parse_entry_names(parts, Tup([i \in 1..Len(parts) |-> Strip(parts[i][1])]), patches)

parse_entries(ents, patches) ==
    parse_entry_parts(Tup([i \in 1..Len(ents) |-> Split(ents[i], ":")]), patches)

\* a str iterated as a list yields its characters, none of which splits in two
EntriesOf(v) == IF v.list THEN v.items ELSE [i \in 1..Len(v.str) |-> <<v.str[i]>>]

\* the version check with every version from 1 on accepted
check_version_from_1(line) ==
    LET version_str == Strip(SubSeq(line, 3, Len(line))) IN
    IF ~IsInt(version_str) THEN "LogParseException: Malformed version number"
    ELSE IF IntVal(version_str) < 1 THEN "LogException: Log is too old"
    ELSE "none"

\* the version check of _parse_metadata (log.py 186-194) on the line 'Version:...'
check_version(line) ==
    LET version_str == Strip(SubSeq(line, 3, Len(line))) IN
    IF ~IsInt(version_str) THEN "LogParseException: Malformed version number"
    ELSE IF IntVal(version_str) < 1 THEN "LogException: Log is too old"
    ELSE IF IntVal(version_str) > 1 THEN "LogException: Log is too new"
    ELSE "none"

\* the end of _parse_metadata (log.py 207-227), the lookups of `parsed` in their order
parse_hidden(d, a, u, h) ==
    IF h.err # "none" THEN Failed(h.err)
    ELSE [err |-> "none",
          _prev |-> IF d[<<"Previous">>].str = <<"None">> THEN None
                    ELSE CommitOnly(get_commit(d[<<"Previous">>].str)),
          head |-> get_commit(d[<<"Head">>].str),
          applied |-> a.names, unapplied |-> u.names, hidden |-> h.names,
          patches |-> h.patches]

parse_unapplied(d, a, u) ==
    IF u.err # "none" THEN Failed(u.err)
    ELSE IF <<"Hidden">> \notin DOMAIN d THEN Failed("KeyError")
    ELSE parse_hidden(d, a, u, parse_entries(EntriesOf(d[<<"Hidden">>]), u.patches))

parse_applied(d, a) ==
    IF a.err # "none" THEN Failed(a.err)
    ELSE IF <<"Unapplied">> \notin DOMAIN d THEN Failed("KeyError")
    ELSE parse_unapplied(d, a, parse_entries(EntriesOf(d[<<"Unapplied">>]), a.patches))

parse_parsed(pl) ==
    IF pl.err # "none" THEN Failed(pl.err)
    ELSE IF <<"Previous">> \notin DOMAIN pl.d THEN Failed("KeyError")
    ELSE IF pl.d[<<"Previous">>].list THEN Failed("TypeError")
    ELSE IF <<"Head">> \notin DOMAIN pl.d THEN Failed("KeyError")
    ELSE IF pl.d[<<"Head">>].list THEN Failed("TypeError")
    ELSE IF <<"Applied">> \notin DOMAIN pl.d THEN Failed("KeyError")
    ELSE parse_applied(pl.d, parse_entries(EntriesOf(pl.d[<<"Applied">>]), <<>>))

\* LogEntry._parse_metadata
_parse_metadata(metadata) ==
    IF ~(metadata # <<>> /\ Len(metadata[1]) >= 2
         /\ metadata[1][1] = "Version" /\ metadata[1][2] = ":")
    THEN Failed("LogParseException: Malformed log metadata")
    ELSE IF check_version(metadata[1]) # "none" THEN Failed(check_version(metadata[1]))
    ELSE parse_parsed(parse_lines(Tail(metadata)))

\* Tree.data[name] of a stored tree; a tree that is not stored has no entry of any name
HasEntry(objs, t, name) ==
    t \in 1..Len(objs) /\ objs[t].kind = "tree" /\ name \in DOMAIN objs[t].entries

from_commit_data(objs, c, cd) ==
    IF ~HasEntry(objs, cd.tree, <<"meta">>)
    THEN Failed("LogParseException: Not a stack log")
         @@ [message |-> <<>>, commit |-> 0, simplified |-> 0]
    ELSE _parse_metadata(objs[objs[cd.tree].entries[<<"meta">>]].bytes)
         @@ [message |-> cd.message, commit |-> c, simplified |-> 0]

\* LogEntry.from_commit
from_commit(objs, c) == from_commit_data(objs, c, data(objs, c))

\* prev that stays at the entry
prev_same(objs, e) == e

\* LogEntry.prev: the previous entry, decoded from its commit unless it is a LogEntry
prev(objs, e) ==
    IF e._prev.commit # 0 /\ "head" \notin DOMAIN e._prev
    THEN from_commit(objs, e._prev.commit)
    ELSE e._prev

\* the lines of the patches of one list
PatchLines(e, lst) ==
    Tup([i \in 1..Len(lst) |-> <<" ", " ">> \o lst[i] \o <<":", " ">> \o Sha(e.patches[lst[i]])])

\* _metadata_string with the unapplied patches under Hidden and the hidden ones under
\* Unapplied
_metadata_string_swapped(e, p) ==
    << <<"Version", ":", " ", "1">>,
       <<"Previous", ":", " ">> \o (IF p.commit = 0 THEN <<"None">> ELSE Sha(p.commit)),
       <<"Head", ":", " ">> \o Sha(e.head) >>
    \o << <<"Applied", ":">> >> \o PatchLines(e, e.applied)
    \o << <<"Unapplied", ":">> >> \o PatchLines(e, e.hidden)
    \o << <<"Hidden", ":">> >> \o PatchLines(e, e.unapplied)

\* _metadata_string that writes every entry as the first of its log
_metadata_string_first(e, p) ==
    << <<"Version", ":", " ", "1">>,
       <<"Previous", ":", " ", "None">>,
       <<"Head", ":", " ">> \o Sha(e.head) >>
    \o << <<"Applied", ":">> >> \o PatchLines(e, e.applied)
    \o << <<"Unapplied", ":">> >> \o PatchLines(e, e.unapplied)
    \o << <<"Hidden", ":">> >> \o PatchLines(e, e.hidden)

\* LogEntry._metadata_string of the entry e whose prev is p
_metadata_string(e, p) ==
    << <<"Version", ":", " ", "1">>,
       <<"Previous", ":", " ">> \o (IF p.commit = 0 THEN <<"None">> ELSE Sha(p.commit)),
       <<"Head", ":", " ">> \o Sha(e.head) >>
    \o << <<"Applied", ":">> >> \o PatchLines(e, e.applied)
    \o << <<"Unapplied", ":">> >> \o PatchLines(e, e.unapplied)
    \o << <<"Hidden", ":">> >> \o PatchLines(e, e.hidden)

\* LogEntry.simplified
simplified(objs, e) ==
    IF e.simplified # 0 THEN e.simplified ELSE data(objs, e.commit).parents[1]

\* the commits the entry refers to: head, unapplied, hidden and the last applied patch
Referred(e) ==
    {e.head} \cup {e.patches[pn] : pn \in Range(e.unapplied \o e.hidden)}
    \cup (IF e.applied # <<>> THEN {e.patches[e.applied[Len(e.applied)]]} ELSE {})

\* _parents without the previous entry's commit
_parents_without_prev(e, p) ==
    IF p.commit # 0 THEN Referred(e) \ Range(p.patches) ELSE Referred(e)

\* LogEntry._parents of the entry e whose prev is p
_parents(e, p) ==
    IF p.commit # 0
    THEN (Referred(e) \cup {p.commit}) \ Range(p.patches)
    ELSE Referred(e)

\* the bytes of LogEntry.patch_file for the commit data cd, whose parent's data is pd
patch_file_bytes(cd, pd) ==
    << <<"Bottom", ":", " ">> \o Sha(pd.tree),
       <<"Top", ":", " ", " ", " ", " ">> \o Sha(cd.tree),
       <<"Author", ":", " ", "A">>,
       <<"Date", ":", " ", " ", " ", "D">>,
       <<>> >> \o cd.message

\* LogEntry.patch_file: the blob of the commit data cd
patch_file(objs, cd) == BlobObj(patch_file_bytes(cd, data(objs, cd.parents[1])))

\* the store after writing the objects of the sequence new one after the other with Put
PutAll(objs, new) ==
    objs \o SelectSeq(Tup([i \in 1..Len(new) |->
                              IF ~Stored(objs, new[i]) /\ \A j \in 1..(i - 1) : new[j] # new[i]
                              THEN new[i] ELSE None]),
                      LAMBDA o : o # None)

\* c2b with the blob of one patch of prev's tree for every commit
PatchBlobs_one(p, prev_patch_tree) ==
    Fn([c \in Range(p.patches) |->
           prev_patch_tree.entries[CHOOSE n \in DOMAIN p.patches : TRUE]])

\* the map c2b of _tree from the commits of prev's patches to the blobs of prev's tree
PatchBlobs(p, prev_patch_tree) ==
    Fn([c \in Range(p.patches) |->
           prev_patch_tree.entries[CHOOSE n \in DOMAIN p.patches : p.patches[n] = c]])
PrevBlobs(objs, p) ==
    IF p.commit = 0 THEN <<>>
    ELSE PatchBlobs(p, objs[objs[data(objs, p.commit).tree].entries[<<"patches">>]])

\* the trees of _tree: patches, whose blobs are those of prev or the written ones, and
\* the top tree with meta and patches
TopTree(pt, m) ==
    commit_tree(pt.objects, Fn([n \in {<<"meta">>, <<"patches">>} |->
                                   IF n = <<"meta">> THEN m ELSE pt.id]))

PatchTree(m, e, c2b, written, blobs) ==
    TopTree(commit_tree(m.objects,
                        Fn([pn \in DOMAIN e.patches |->
                               IF e.patches[pn] \in DOMAIN c2b THEN c2b[e.patches[pn]]
                               ELSE Lookup(m.objects,
                                           blobs[CHOOSE i \in 1..Len(written) :
                                                     written[i] = e.patches[pn]])])),
            m.id)

WritePatchFiles(objs, e, metadata, c2b, written, blobs) ==
    PatchTree(commit_blob(PutAll(objs, blobs), metadata), e, c2b, written, blobs)

PatchFiles(objs, e, metadata, c2b, written) ==
    WritePatchFiles(objs, e, metadata, c2b, written,
                    Tup([i \in 1..Len(written) |-> patch_file(objs, data(objs, written[i]))]))

NewPatchFiles(objs, e, metadata, c2b) ==
    PatchFiles(objs, e, metadata, c2b,
               Sorted({c \in Range(e.patches) : c \notin DOMAIN c2b}))

\* LogEntry._tree of the entry e whose prev is p: the blob of a patch is that of the same
\* commit in the previous entry's tree when there is one, else written by patch_file
_tree(objs, e, p, metadata) == NewPatchFiles(objs, e, metadata, PrevBlobs(objs, p))

\* list(set): the order of iteration of the set of parents is unspecified
Orders == {"ascending", "descending"}
ListOf(S, order) == IF order = "ascending" THEN Sorted(S) ELSE Tup(Reverse(Sorted(S)))

Grouping == << <<"Stack", " ", "log", " ", "parent", " ", "grouping">> >>

\* the loop with > for >=
RECURSIVE fold_parents_over(_, _, _, _)
fold_parents_over(objs, tree, parents, groups) ==
    IF Len(parents) > _max_parents
    THEN LET n == Len(parents)
             g == commit(objs, tree, SubSeq(parents, n - _max_parents + 1, n), Grouping)
         IN fold_parents_over(g.objects, tree,
                             Append(SubSeq(parents, 1, n - _max_parents), g.id),
                             groups \cup {g.id})
    ELSE [objects |-> objs, parents |-> parents, groups |-> groups]

\* the loop with grouping commits of one parent fewer than they replace
RECURSIVE fold_parents_short(_, _, _, _)
fold_parents_short(objs, tree, parents, groups) ==
    IF Len(parents) >= _max_parents
    THEN LET n == Len(parents)
             g == commit(objs, tree, SubSeq(parents, n - _max_parents + 2, n), Grouping)
         IN fold_parents_short(g.objects, tree,
                              Append(SubSeq(parents, 1, n - _max_parents), g.id),
                              groups \cup {g.id})
    ELSE [objects |-> objs, parents |-> parents, groups |-> groups]

\* the loop of write_commit (log.py 326-334): fold the trailing parents into grouping commits
RECURSIVE fold_parents(_, _, _, _)
fold_parents(objs, tree, parents, groups) ==
    IF Len(parents) >= _max_parents
    THEN LET n == Len(parents)
             g == commit(objs, tree, SubSeq(parents, n - _max_parents + 1, n), Grouping)
         IN fold_parents(g.objects, tree,
                        Append(SubSeq(parents, 1, n - _max_parents), g.id),
                        groups \cup {g.id})
    ELSE [objects |-> objs, parents |-> parents, groups |-> groups]

\* the end of write_commit (log.py 335-341): the full commit on the simplified commit
\* and the folded parents
write_full(e, p, tree, simp, f) ==
    LET full == commit(f.objects, tree, <<simp>> \o f.parents, e.message)
    IN [objects |-> full.objects,
        entry |-> [e EXCEPT !.simplified = simp, !.commit = full.id,
                            !._prev = CommitOnly(p.commit)],
        required |-> _parents(e, p),
        groups |-> f.groups]

write_parents(e, p, order, tree, simp) ==
    write_full(e, p, tree, simp.id,
               fold_parents(simp.objects, tree, ListOf(_parents(e, p), order), {}))

\* the simplified commit with the previous entry's full commit for its parent
write_simplified_on_full(objs, e, p, order, tree) ==
    write_parents(e, p, order, tree.id,
                  commit(tree.objects, tree.id,
                         IF p.commit = 0 THEN <<>> ELSE <<p.commit>>,
                         e.message))

\* the simplified commit of write_commit (log.py 318-324)
write_simplified(objs, e, p, order, tree) ==
    write_parents(e, p, order, tree.id,
                  commit(tree.objects, tree.id,
                         IF p.commit = 0 THEN <<>> ELSE <<simplified(objs, p)>>,
                         e.message))

write_tree(objs, e, p, order) ==
    write_simplified(objs, e, p, order, _tree(objs, e, p, _metadata_string(e, p)))

\* LogEntry.write_commit: the store afterwards, the entry with its commits, the parents
\* it required and the grouping commits written
write_commit(objs, e, order) == write_tree(objs, e, prev(objs, e), order)

\* the exceptions of this module: LogParseException is a LogException
LogParseExceptions ==
    {"LogParseException: Malformed log metadata",
     "LogParseException: Malformed version number",
     "LogParseException: Not a stack log"}
RaisedLogExceptions ==
    LogParseExceptions
    \cup {"LogException: Log is too old", "LogException: Log is too new",
          "LogException: Log is empty",
          "LogException: No more redo information available",
          "LogException: Not enough undo information available"}
WhileReading(err) == "LogException: While reading log: " \o err
LogExceptions == RaisedLogExceptions \cup {WhileReading(err) : err \in RaisedLogExceptions}

\* get_log_entry: a LogException of from_commit is raised again as a plain LogException
reraised(r) == IF r.err \in LogExceptions THEN [r EXCEPT !.err = WhileReading(r.err)] ELSE r
get_log_entry(objs, c) == reraised(from_commit(objs, c))

\* same_state with the message compared as well
same_state_message(log1, log2) ==
    <<log1.head, log1.applied, log1.unapplied, log1.hidden, log1.patches, log1.message>>
    = <<log2.head, log2.applied, log2.unapplied, log2.hidden, log2.patches, log2.message>>

\* same_state
same_state(log1, log2) ==
    <<log1.head, log1.applied, log1.unapplied, log1.hidden, log1.patches>>
    = <<log2.head, log2.applied, log2.unapplied, log2.hidden, log2.patches>>

----------------------------------------------------------------------------
(* The stack (Stack collaborator): patches are commits, the applied ones a chain *)

PatchName(i) == <<"p" \o ToString(i)>>
PatchMsg == << <<"patch">> >>

\* an ordinary commit made by the user or by a stack operation, with a tree of its own
\* whose one entry stands for the files of the commit
UserCommit(objs, parents) ==
    LET t == Len(objs) + 1
    IN objs \o <<TreeObj(Fn([n \in {<<"files">>} |-> t])), CommitObj(t, parents, PatchMsg)>>

Root == Len(UserCommit(<<>>, <<>>))

top(stk) ==
    IF stk.applied # <<>> THEN stk.patches[stk.applied[Len(stk.applied)]] ELSE stk.head

\* the store of a stack of n patches on the root commit, the first a of them a chain
RECURSIVE InitObjects(_, _, _)
InitObjects(objs, a, n) ==
    IF n = 0 THEN objs
    ELSE InitObjects(UserCommit(objs, IF a > 0 THEN <<Len(objs)>> ELSE <<Root>>), a - 1, n - 1)

\* the commit of the i-th patch in that store
PatchCommit(i) == Root + i * Len(UserCommit(<<>>, <<>>))

InitStack(a, u, h) ==
    [head |-> PatchCommit(a),
     applied |-> Tup([i \in 1..a |-> PatchName(i)]),
     unapplied |-> Tup([i \in 1..u |-> PatchName(a + i)]),
     hidden |-> Tup([i \in 1..h |-> PatchName(a + u + i)]),
     patches |-> Fn([pn \in {PatchName(i) : i \in 1..(a + u + h)} |->
                        PatchCommit(CHOOSE i \in 1..(a + u + h) : PatchName(i) = pn)]),
     next |-> a + u + h + 1]

NoRes == [op |-> "none", arg |-> 0, outcome |-> "none", ref |-> 0, nobj |-> 0]
NoParse == Failed("none") @@ [message |-> <<>>, commit |-> 0, simplified |-> 0]

\* a repository with a stack of a applied, u unapplied and h hidden patches and no log
StartLog(a, u, h, ops, m) ==
    /\ objects = InitObjects(UserCommit(<<>>, <<>>), a, a + u + h)
    /\ stack = InitStack(a, u, h)
    /\ gitref = 0
    /\ refs = -1
    /\ entries = <<>>
    /\ res = NoRes
    /\ nops = ops
    /\ meta = m
    /\ parsed = NoParse
    /\ log = NoParse
    /\ undo_steps = 0
    /\ trace = <<>>

\* no process uses Refs
NoRefsCalls ==
    /\ refstore = <<>>
    /\ refcache = <<>>
    /\ pending = <<>>
    /\ rres = <<>>

\* no Repository
NoRepository ==
    /\ __commits = <<>>
    /\ __trees = <<>>
    /\ next_id = 0
    /\ handed = {}
    /\ index_files = {}
    /\ ores = <<>>

\* no reset
NoReset ==
    /\ trans = <<>>
    /\ state = <<>>
    /\ tres = <<>>

Start(a, u, h, ops, m) ==
    /\ StartLog(a, u, h, ops, m)
    /\ NoRefsCalls
    /\ NoRepository
    /\ NoReset

\* numbers of unapplied patches around the parent cap and around twice the cap
WideUnapplied ==
    ((_max_parents - 2)..(_max_parents + MaxOver)) \cup {2 * _max_parents - 2}

\* stacks of few patches, and stacks of many unapplied patches that get one operation fewer
Init ==
    \E a \in 0..MaxApplied, u \in (0..MaxUnapplied) \cup WideUnapplied, h \in 0..MaxHidden :
        /\ u \in WideUnapplied => a = 0 /\ h = 0
        /\ Start(a, u, h, IF u \in WideUnapplied THEN MaxOps - 1 ELSE 0, <<>>)

StoreVars == <<objects, gitref, refs, stack, entries>>
ParseVars == <<meta, parsed>>
UndoVars == <<log, undo_steps, trace>>
LogVars == <<StoreVars, res, nops, ParseVars, UndoVars>>
RefsVars == <<refstore, refcache, pending, rres>>
RepoVars == <<__commits, __trees, next_id, handed, index_files, ores>>
ResetVars == <<trans, state, tres>>
OtherVars == <<RefsVars, RepoVars, ResetVars>>

----------------------------------------------------------------------------
(* log_entry *)

Msgs == {<< <<"push">> >>, << <<"undo", " ", "1">> >>}

\* Refs.get: the cached value, after caching the refs of the store when there is no cache
RefsGet == IF refs = -1 THEN gitref ELSE refs

\* log_entry leaves without a new entry
Unwritten(outcome, objs, ref, last_log_commit) ==
    [outcome |-> outcome, objects |-> objs, gitref |-> ref, refs |-> last_log_commit,
     written |-> <<>>]

\* Refs.set after write_commit: git update-ref ref new old fails when the store holds
\* another value than the cached one
refs_set(ref, last_log_commit, w) ==
    [outcome |-> IF ref = last_log_commit THEN "written" ELSE "RunException",
     objects |-> w.objects,
     gitref |-> IF ref = last_log_commit THEN w.entry.commit ELSE ref,
     refs |-> IF ref = last_log_commit THEN w.entry.commit ELSE last_log_commit,
     written |-> <<[entry |-> w.entry, required |-> w.required, groups |-> w.groups]>>]

\* log_entry once the last entry is read
log_entry_after(objs, last_log_commit, ref, stk, msg, order, last_log) ==
    IF last_log.err \in LogExceptions
    THEN \* out.warn(str(e), 'No log entry written.')
         Unwritten("warned", objs, ref, last_log_commit)
    ELSE IF last_log.err # "none"
    THEN \* an exception that is no LogException leaves log_entry
         Unwritten(last_log.err, objs, ref, last_log_commit)
    ELSE IF same_state(last_log, from_stack(last_log, stk, msg))
    THEN Unwritten("same", objs, ref, last_log_commit)
    ELSE refs_set(ref, last_log_commit,
                  write_commit(objs, from_stack(last_log, stk, msg), order))

\* log_entry(stack, msg) in a process whose Refs.get gives last_log_commit while the
\* store holds the value ref: the outcome, the store and the cache afterwards, and the
\* entry written if any
log_entry(objs, last_log_commit, ref, stk, msg, order) ==
    IF last_log_commit = 0
    THEN refs_set(ref, last_log_commit, write_commit(objs, from_stack(None, stk, msg), order))
    ELSE log_entry_after(objs, last_log_commit, ref, stk, msg, order,
                         get_log_entry(objs, last_log_commit))

LogEntryCall ==
    \E msg \in Msgs, order \in Orders :
        \E r \in {log_entry(objects, RefsGet, gitref, stack, msg, order)} :
            /\ Len(entries) + Len(r.written) <= MaxEntries
            /\ objects' = r.objects
            /\ gitref' = r.gitref
            /\ refs' = r.refs
            /\ entries' = entries \o r.written
            /\ res' = [op |-> "log_entry", arg |-> msg, outcome |-> r.outcome,
                       ref |-> gitref, nobj |-> Len(objects)]
            /\ UNCHANGED <<stack, nops>>
            /\ UNCHANGED <<ParseVars, UndoVars, OtherVars>>

----------------------------------------------------------------------------
(* Stack operations, each by some stg command; external writers of the ref *)

Last(q) == q[Len(q)]
Front(q) == SubSeq(q, 1, Len(q) - 1)

\* each stack operation is the work of a new stg process, which has cached no refs yet
StackOp(op, stk, objs) ==
    /\ nops < MaxOps
    /\ Len(entries) < MaxEntries
    /\ nops' = nops + 1
    /\ stack' = stk
    /\ objects' = objs
    /\ refs' = -1
    /\ res' = [NoRes EXCEPT !.op = op]
    /\ UNCHANGED <<gitref, entries>>
    /\ UNCHANGED <<ParseVars, UndoVars, OtherVars>>

\* stg new + refresh: a new patch on top of the applied ones
NewPatch ==
    /\ stack.head = top(stack)
    /\ LET pn == PatchName(stack.next)
           objs == UserCommit(objects, <<stack.head>>)
       IN StackOp("NewPatch", [stack EXCEPT !.head = Len(objs),
                                !.applied = Append(@, pn),
                                !.patches = DictSet(@, pn, Len(objs)),
                                !.next = @ + 1], objs)

\* stg pop: the topmost applied patch becomes the first unapplied one
Pop ==
    /\ stack.applied # <<>>
    /\ stack.head = top(stack)
    /\ LET pn == Last(stack.applied)
       IN StackOp("Pop", [stack EXCEPT !.head = objects[stack.patches[pn]].parents[1],
                                !.applied = Front(@),
                                !.unapplied = <<pn>> \o @], objects)

\* stg push: the first unapplied patch is applied, with a new commit unless it fast-forwards
Push ==
    /\ stack.unapplied # <<>>
    /\ stack.head = top(stack)
    /\ LET pn == Head(stack.unapplied)
           ff == objects[stack.patches[pn]].parents = <<stack.head>>
           objs == IF ff THEN objects ELSE UserCommit(objects, <<stack.head>>)
           c == IF ff THEN stack.patches[pn] ELSE Len(objs)
       IN StackOp("Push", [stack EXCEPT !.head = c,
                                !.applied = Append(@, pn),
                                !.unapplied = Tail(@),
                                !.patches = DictSet(@, pn, c)], objs)

\* stg refresh: the topmost applied patch gets a new commit on the same parent
Refresh ==
    /\ stack.applied # <<>>
    /\ stack.head = top(stack)
    /\ LET pn == Last(stack.applied)
           objs == UserCommit(objects, objects[stack.patches[pn]].parents)
       IN StackOp("Refresh", [stack EXCEPT !.head = Len(objs),
                                !.patches = DictSet(@, pn, Len(objs))], objs)

\* the list q with new for every old
Renamed(q, old, new) == Tup([i \in 1..Len(q) |-> IF q[i] = old THEN new ELSE q[i]])

\* stg rename: a patch gets a new name and keeps its commit and its place; the patch
\* is the first of the stack, of whatever list
Rename ==
    /\ DOMAIN stack.patches # {}
    /\ LET pn == Head(stack.applied \o stack.unapplied \o stack.hidden)
           new == PatchName(stack.next)
       IN StackOp("Rename",
                   [stack EXCEPT !.applied = Renamed(@, pn, new),
                                 !.unapplied = Renamed(@, pn, new),
                                 !.hidden = Renamed(@, pn, new),
                                 !.patches = Fn([n \in (DOMAIN @ \ {pn}) \cup {new} |->
                                                    IF n = new THEN @[pn] ELSE @[n]]),
                                 !.next = @ + 1], objects)

\* git commit: the branch head moves without the stack knowing
ExternalCommit ==
    /\ stack.head = top(stack)
    /\ LET objs == UserCommit(objects, <<stack.head>>)
       IN StackOp("ExternalCommit", [stack EXCEPT !.head = Len(objs)], objs)

\* a log commit with the metadata m, written by something else than write_commit
ForeignCommit(objs, m, parents) ==
    LET b == commit_blob(objs, m)
        pt == commit_tree(b.objects, <<>>)
        t == commit_tree(pt.objects, Fn([n \in {<<"meta">>, <<"patches">>} |->
                                            IF n = <<"meta">> THEN b.id ELSE pt.id]))
    IN commit(t.objects, t.id, parents, << <<"foreign">> >>)

\* metadata that this version does not read: a newer format, a lost Head line
ForeignMetas ==
    {<< <<"Version", ":", " ", "2">> >>,
     << <<"Version", ":", " ", "1">>, <<"Previous", ":", " ", "None">>,
        <<"Applied", ":">>, <<"Unapplied", ":">>, <<"Hidden", ":">> >>}

\* another writer (a different StGit, a damaged repository) moves the log ref to a commit
\* whose meta blob this version does not read; the next stg command is a new process
ExternalLog ==
    \E m \in ForeignMetas :
        /\ nops < MaxOps
        /\ Len(entries) < MaxEntries
        /\ gitref # 0
        /\ LET c == ForeignCommit(objects, m, <<gitref>>)
           IN /\ objects' = c.objects
              /\ gitref' = c.id
        /\ nops' = nops + 1
        /\ refs' = -1
        /\ res' = [NoRes EXCEPT !.op = "ExternalLog"]
        /\ UNCHANGED <<stack, entries>>
        /\ UNCHANGED <<ParseVars, UndoVars, OtherVars>>

Next ==
    \/ LogEntryCall
    \/ NewPatch
    \/ Pop
    \/ Push
    \/ Refresh
    \/ Rename
    \/ ExternalCommit
    \/ ExternalLog

Spec == Init /\ [][Next]_vars

----------------------------------------------------------------------------
(* Decoding of log commits written by others *)

\* lines that do not belong where they are put: one without a colon, a patch line, a
\* patch line with two colons, a line of the first patch once more
BadLines ==
    {<<"garbage">>,
     <<" ", " ", "px", ":", " ", "2">>,
     <<" ", " ", "px", ":", "py", ":", " ", "2">>,
     <<" ", " ">> \o PatchName(1) \o <<":", " ", "2">>}

Versions == {<<"0">>, <<"2">>, <<"1", "0">>, <<"-", "1">>, <<"abc">>, <<>>}

\* the metadata of the first entry of a stack of k applied, k unapplied and k hidden patches
InitParse ==
    \E k \in 0..MaxHidden :
        Start(k, k, k, 0, _metadata_string(from_stack(None, InitStack(k, k, k), <<>>), None))

Edit(m) ==
    /\ res.op # "from_commit"
    /\ nops < MaxEdits
    /\ nops' = nops + 1
    /\ meta' = m
    /\ UNCHANGED <<StoreVars, res, parsed, UndoVars, OtherVars>>

DropLine ==
    \E i \in 1..Len(meta) : Edit(SubSeq(meta, 1, i - 1) \o SubSeq(meta, i + 1, Len(meta)))

InsertLine ==
    \E i \in 0..Len(meta), l \in BadLines :
        Edit(SubSeq(meta, 1, i) \o <<l>> \o SubSeq(meta, i + 1, Len(meta)))

SetVersion ==
    \E v \in Versions :
        /\ meta # <<>>
        /\ Edit([meta EXCEPT ![1] = <<"Version", ":", " ">> \o v])

\* a commit with the metadata arrives in the store and LogEntry.from_commit decodes it
Decode ==
    /\ res.op # "from_commit"
    /\ \E c \in {ForeignCommit(objects, meta, <<>>)} :
           \E d \in {from_commit(c.objects, c.id)} :
               /\ objects' = c.objects
               /\ parsed' = d
               /\ res' = [op |-> "from_commit", arg |-> c.id, outcome |-> d.err,
                          ref |-> gitref, nobj |-> Len(objects)]
    /\ UNCHANGED <<gitref, refs, stack, entries, nops, meta, UndoVars, OtherVars>>

NextParse ==
    \/ DropLine
    \/ InsertLine
    \/ SetVersion
    \/ Decode

SpecParse == InitParse /\ [][NextParse]_vars

----------------------------------------------------------------------------
(* undo_state *)

\* a text as one line, its lines joined by newlines
RECURSIVE Join(_)
Join(text) ==
    IF text = <<>> THEN <<>>
    ELSE IF Len(text) = 1 THEN text[1]
    ELSE text[1] \o <<"\n">> \o Join(Tail(text))

\* a pattern that matches nothing
re_match_nothing(word, msg) == 0 - 1

\* re.match(r'^word\s+(\d+)$', msg): the number of the match, -1 when there is no match
re_match(word, msg) ==
    IF \E j \in 2..(Len(msg) - 1) :
           /\ msg[1] = word
           /\ \A i \in 2..j : msg[i] \in Whitespace
           /\ IsDigits(SubSeq(msg, j + 1, Len(msg)))
    THEN DigitsVal(SubSeq(msg, 1 + Max({j \in 2..(Len(msg) - 1) : msg[j] \in Whitespace}),
                          Len(msg)))
    ELSE 0 - 1

\* the count with an undo marker counted as one step undone
undo_count_by_one(n0, msg) ==
    IF n0 > 0
    THEN [err |-> "none",
          n |-> IF re_match("undo", msg) >= 0 THEN n0 + 1 ELSE n0 - 1]
    ELSE IF re_match("undo", msg) >= 0 THEN [err |-> "none", n |-> n0 + 1]
    ELSE IF re_match("redo", msg) >= 0
    THEN [err |-> "none", n |-> n0 - re_match("redo", msg)]
    ELSE [err |-> "LogException: No more redo information available", n |-> n0]

\* the count with a plain entry taken as one step of a redo
undo_count_redo_plain(n0, msg) ==
    IF n0 > 0
    THEN [err |-> "none",
          n |-> IF re_match("undo", msg) >= 0 THEN n0 + re_match("undo", msg)
                ELSE n0 - 1]
    ELSE IF re_match("redo", msg) >= 0
    THEN [err |-> "none", n |-> n0 - re_match("redo", msg)]
    ELSE [err |-> "none", n |-> n0 + 1]

\* the count with the k of an undo marker added in a redo as in an undo
undo_count_redo_by_k(n0, msg) ==
    IF re_match("undo", msg) >= 0
    THEN [err |-> "none", n |-> n0 + re_match("undo", msg)]
    ELSE IF n0 > 0 THEN [err |-> "none", n |-> n0 - 1]
    ELSE IF re_match("redo", msg) >= 0
    THEN [err |-> "none", n |-> n0 - re_match("redo", msg)]
    ELSE [err |-> "LogException: No more redo information available", n |-> n0]

\* the count after the entry with the message msg (log.py 472-484)
undo_count(n0, msg) ==
    IF n0 > 0
    THEN [err |-> "none",
          n |-> IF re_match("undo", msg) >= 0 THEN n0 + re_match("undo", msg)
                ELSE n0 - 1]
    ELSE IF re_match("undo", msg) >= 0 THEN [err |-> "none", n |-> n0 + 1]
    ELSE IF re_match("redo", msg) >= 0
    THEN [err |-> "none", n |-> n0 - re_match("redo", msg)]
    ELSE [err |-> "LogException: No more redo information available", n |-> n0]

UndoMsgs ==
    {<< <<"plain">> >>, << <<"undo", " ", "1">> >>, << <<"undo", " ", "2">> >>,
     << <<"redo", " ", "1">> >>}

InitUndo == Start(0, 0, 0, 0, <<>>)

\* a stg command in a process of its own: the head moves to a new commit and log_entry
\* writes the entry with the message of the command
Command ==
    /\ res.op # "undo_state"
    /\ Len(entries) < MaxChain
    /\ \E msg \in UndoMsgs, order \in Orders :
           \E objs \in {UserCommit(objects, <<stack.head>>)} :
               \E r \in {log_entry(objs, gitref, gitref,
                                   [stack EXCEPT !.head = Len(objs)], msg, order)} :
                   /\ objects' = r.objects
                   /\ gitref' = r.gitref
                   /\ refs' = r.refs
                   /\ stack' = [stack EXCEPT !.head = Len(objs)]
                   /\ entries' = entries \o r.written
                   /\ res' = [op |-> "log_entry", arg |-> msg, outcome |-> r.outcome,
                              ref |-> gitref, nobj |-> Len(objects)]
    /\ UNCHANGED <<nops, ParseVars, UndoVars, OtherVars>>

\* undo_state up to its loop (log.py 463-468), in a new process
UndoStart ==
    /\ res.op # "undo_state"
    /\ \E n \in (0 - MaxSteps)..MaxSteps :
           /\ undo_steps' = n
           /\ IF gitref = 0
              THEN /\ res' = [op |-> "undo_state", arg |-> n,
                              outcome |-> "LogException: Log is empty",
                              ref |-> gitref, nobj |-> Len(objects)]
                   /\ UNCHANGED log
              ELSE \E l \in {get_log_entry(objects, gitref)} :
                       /\ res' = [op |-> "undo_state", arg |-> n,
                                  outcome |-> IF l.err = "none" THEN "running" ELSE l.err,
                                  ref |-> gitref, nobj |-> Len(objects)]
                       /\ log' = l
    /\ refs' = gitref
    /\ trace' = <<>>
    /\ UNCHANGED <<objects, gitref, stack, entries, nops, ParseVars, OtherVars>>

\* one test of the loop condition of undo_state and, if it holds, one iteration
\* (log.py 469-487); return log otherwise (log.py 488)
UndoStep ==
    /\ res.op = "undo_state"
    /\ res.outcome = "running"
    /\ IF undo_steps = 0
       THEN /\ res' = [res EXCEPT !.outcome = "returned"]
            /\ UNCHANGED UndoVars
       ELSE \E c \in {undo_count(undo_steps, Strip(Join(log.message)))} :
                /\ trace' = Append(trace, [entry |-> log.commit, before |-> undo_steps,
                                           after |-> c.n])
                /\ undo_steps' = c.n
                /\ IF c.err # "none"
                   THEN /\ res' = [res EXCEPT !.outcome = c.err]
                        /\ UNCHANGED log
                   ELSE \E p \in {prev(objects, log)} :
                            IF p.commit = 0
                            THEN /\ res' = [res EXCEPT !.outcome =
                                     "LogException: Not enough undo information available"]
                                 /\ UNCHANGED log
                            ELSE IF p.err # "none"
                            THEN /\ res' = [res EXCEPT !.outcome = p.err]
                                 /\ UNCHANGED log
                            ELSE /\ log' = p
                                 /\ UNCHANGED res
    /\ UNCHANGED <<StoreVars, nops, ParseVars, OtherVars>>

NextUndo ==
    \/ Command
    \/ UndoStart
    \/ UndoStep

SpecUndo == InitUndo /\ [][NextUndo]_vars

\* undo_state is in its loop, which is when UndoStep is enabled
Running == res.op = "undo_state" /\ res.outcome = "running"

\* undo_state is sequential code: once called, its loop is run until it leaves.  This
\* is WF_vars(UndoStep) with Running for ENABLED <<UndoStep>>_vars
SpecUndoFair == SpecUndo /\ ([]<>~Running \/ []<><<UndoStep>>_vars)

----------------------------------------------------------------------------
(* Refs of several processes over one store (SpecRefs) *)

RefNames == {"refs/heads/master", "refs/heads/master.stgit"}

Procs == 1..MaxProcs

RefShas == 1..MaxRefSha

\* Refs.__init__: no cache yet (__refs = None)
NoRefs == [cached |-> FALSE, refs |-> [r \in RefNames |-> 0]]

\* Refs.__cache_refs: the refs `git show-ref` lists; 0 stands for a ref that is not
\* in the dict
cache_refs(store) == [cached |-> TRUE, refs |-> store]

\* git update-ref [-d] ref new old: the store takes the new value (0: deletes the ref)
\* if the ref has the value old (0: if there is no such ref) and fails otherwise
update_ref(store, ref, new, old) ==
    IF store[ref] = old
    THEN [ok |-> TRUE, store |-> [store EXCEPT ![ref] = new]]
    ELSE [ok |-> FALSE, store |-> store]

\* update-ref without the old value: the store takes the new value whatever it has
update_ref_unchecked(store, ref, new, old) ==
    [ok |-> TRUE, store |-> [store EXCEPT ![ref] = new]]

\* the result of a call of Refs: the cache and the store after it, what it returns or
\* raises, and whether it ran update-ref
RefsResult(c, store, outcome, value, issued) ==
    [cache |-> c, store |-> store, outcome |-> outcome, value |-> value,
     issued |-> issued]

\* Refs.get with the cache built
Refs_get(c, store, ref) ==
    IF c.refs[ref] = 0
    THEN RefsResult(c, store, "KeyError", 0, FALSE)
    ELSE RefsResult(c, store, "ok", c.refs[ref], FALSE)

Refs_set_after(c, u, ref, new) ==
    IF u.ok
    THEN RefsResult([c EXCEPT !.refs[ref] = new], u.store, "ok", 0, TRUE)
    ELSE RefsResult(c, u.store, "RunException", 0, TRUE)

\* Refs.set that stores the new value in the cache whatever update-ref does
Refs_set_cache_first(c, store, ref, new) ==
    IF c.refs[ref] # new
    THEN [Refs_set_after(c, update_ref(store, ref, new, c.refs[ref]), ref, new)
              EXCEPT !.cache = [c EXCEPT !.refs[ref] = new]]
    ELSE RefsResult(c, store, "ok", 0, FALSE)

\* Refs.set that does not hand the old value to update-ref
Refs_set_unchecked(c, store, ref, new) ==
    IF c.refs[ref] # new
    THEN Refs_set_after(c, update_ref_unchecked(store, ref, new, c.refs[ref]), ref, new)
    ELSE RefsResult(c, store, "ok", 0, FALSE)

\* Refs.set with the cache built
Refs_set(c, store, ref, new) ==
    IF c.refs[ref] # new
    THEN Refs_set_after(c, update_ref(store, ref, new, c.refs[ref]), ref, new)
    ELSE RefsResult(c, store, "ok", 0, FALSE)

Refs_delete_after(c, u, ref) ==
    IF u.ok
    THEN RefsResult([c EXCEPT !.refs[ref] = 0], u.store, "ok", 0, TRUE)
    ELSE RefsResult(c, u.store, "RunException", 0, TRUE)

\* Refs.delete with the cache built
Refs_delete(c, store, ref) ==
    IF c.refs[ref] = 0
    THEN RefsResult(c, store, "KeyError", 0, FALSE)
    ELSE Refs_delete_after(c, update_ref(store, ref, 0, c.refs[ref]), ref)

RefsOps == {"get", "set", "delete"}

NoCall == [op |-> "none", ref |-> "", new |-> 0]

NoRefsRes ==
    [proc |-> 0, op |-> "none", ref |-> "", new |-> 0, outcome |-> "none", value |-> 0,
     issued |-> FALSE, cache_before |-> NoRefs, store_before |-> [r \in RefNames |-> 0]]

InitRefs ==
    /\ StartLog(0, 0, 0, 0, <<>>)
    /\ NoRepository
    /\ NoReset
    /\ refstore \in [RefNames -> 0..MaxRefSha]
    /\ refcache = [p \in Procs |-> NoRefs]
    /\ pending = [p \in Procs |-> NoCall]
    /\ rres = NoRefsRes

\* the part of a call after `if self.__refs == None: self.__cache_refs()`
RefsDo(p, call) ==
    \E r \in {IF call.op = "get" THEN Refs_get(refcache[p], refstore, call.ref)
              ELSE IF call.op = "set"
              THEN Refs_set(refcache[p], refstore, call.ref, call.new)
              ELSE Refs_delete(refcache[p], refstore, call.ref)} :
        /\ refcache' = [refcache EXCEPT ![p] = r.cache]
        /\ refstore' = r.store
        /\ pending' = [pending EXCEPT ![p] = NoCall]
        /\ rres' = [proc |-> p, op |-> call.op, ref |-> call.ref, new |-> call.new,
                    outcome |-> r.outcome, value |-> r.value, issued |-> r.issued,
                    cache_before |-> refcache[p], store_before |-> refstore]

\* process p calls Refs.get, Refs.set or Refs.delete: with no cache yet it runs
\* `git show-ref` and builds the cache, and the rest of the call is its next step
RefsCall ==
    /\ \E p \in Procs, op \in RefsOps, ref \in RefNames, new \in RefShas :
           /\ pending[p] = NoCall
           /\ op # "set" => new = 1
           /\ IF refcache[p].cached
              THEN RefsDo(p, [op |-> op, ref |-> ref, new |-> new])
              ELSE /\ refcache' = [refcache EXCEPT ![p] = cache_refs(refstore)]
                   /\ pending' = [pending EXCEPT ![p] =
                                      [op |-> op, ref |-> ref, new |-> new]]
                   /\ rres' = [NoRefsRes EXCEPT !.proc = p, !.op = "__cache_refs"]
                   /\ UNCHANGED refstore
    /\ UNCHANGED <<LogVars, RepoVars, ResetVars>>

\* the call of process p goes on after the cache was built
RefsReturn ==
    /\ \E p \in Procs :
           /\ pending[p] # NoCall
           /\ RefsDo(p, pending[p])
    /\ UNCHANGED <<LogVars, RepoVars, ResetVars>>

\* a tool other than StGit sets or deletes a ref
ExternalRef ==
    /\ \E ref \in RefNames, v \in 0..MaxRefSha :
           /\ v # refstore[ref]
           /\ refstore' = [refstore EXCEPT ![ref] = v]
           /\ rres' = [NoRefsRes EXCEPT !.op = "external", !.ref = ref, !.new = v]
    /\ UNCHANGED <<refcache, pending>>
    /\ UNCHANGED <<LogVars, RepoVars, ResetVars>>

\* the command of process p ends and the next one starts with a Repository of its own
NewProcess ==
    /\ \E p \in Procs :
           /\ pending[p] = NoCall
           /\ refcache[p].cached
           /\ refcache' = [refcache EXCEPT ![p] = NoRefs]
           /\ rres' = [NoRefsRes EXCEPT !.proc = p, !.op = "exit"]
    /\ UNCHANGED <<refstore, pending>>
    /\ UNCHANGED <<LogVars, RepoVars, ResetVars>>

NextRefs ==
    \/ RefsCall
    \/ RefsReturn
    \/ ExternalRef
    \/ NewProcess

SpecRefs == InitRefs /\ [][NextRefs]_vars

----------------------------------------------------------------------------
(* One Repository: object caches and temporary indexes (SpecRepo) *)

\* the sha1s of the commits and of the trees in the store
ObjShas == 1..MaxObjSha

TreeShas == 1..MaxTreeSha

IndexNames == 1..MaxIndexNames

\* ObjectCache.__init__
NoObjects == [name \in {} |-> 0]

\* the result of ObjectCache.__getitem__: the dict, the object returned and the number
\* of objects created so far; an object is its number in the order of creation
CacheResult(objs, obj, created) == [objects |-> objs, obj |-> obj, next_id |-> created]

\* ObjectCache.__getitem__ that creates an object at every call
ObjectCache_getitem_new(objs, name, created) ==
    CacheResult([n \in DOMAIN objs \cup {name} |->
                     IF n = name THEN created + 1 ELSE objs[n]],
                created + 1, created + 1)

\* ObjectCache.__getitem__
ObjectCache_getitem(objs, name, created) ==
    IF name \notin DOMAIN objs
    THEN CacheResult([n \in DOMAIN objs \cup {name} |->
                          IF n = name THEN created + 1 ELSE objs[n]],
                     created + 1, created + 1)
    ELSE CacheResult(objs, objs[name], created)

\* Index.delete that leaves the file
Index_delete_kept(files, name) == files

\* Index.delete
Index_delete(files, name) ==
    IF name \in files THEN files \ {name} ELSE files

\* Index.__init__ for a directory: the name of the file, and a file of that name a
\* former process left is removed
temp_index(files, name) == Index_delete(files, name)

\* a git command that writes the index: the file exists after a success, and may or
\* may not after a failure
GitOutcomes == {"ok", "failed", "failed with file"}

Index_run(files, name, outcome) ==
    IF outcome = "failed" THEN files ELSE files \cup {name}

\* what the git commands of one operation do: read-tree (also read-tree -m), apply
\* --cached, and write-tree with the sha1 of the tree written, 0 if it fails
GitRun(rt, ac, wt) == [read_tree |-> rt, apply |-> ac, write_tree |-> wt]

\* the runs that differ in what the operation sees: read-tree fails, apply fails,
\* write-tree fails or names a tree
GitRuns ==
    {GitRun(o, "ok", 0) : o \in GitOutcomes \ {"ok"}}
    \cup {GitRun("ok", "failed", 0)}
    \cup {GitRun("ok", "ok", t) : t \in 0..MaxTreeSha}

IndexResult(outcome, tree, files, created) ==
    [outcome |-> outcome, tree |-> tree, files |-> files, created |-> created]

\* finally: index.delete()
finally_delete(r, name) ==
    [r EXCEPT !.files = Index_delete(r.files, name), !.created = TRUE]

\* the try block of simple_merge: Index.merge, then Index.write_tree whose
\* MergeException gives None
simple_merge_try(files, name, git) ==
    IF git.read_tree # "ok"
    THEN IndexResult("RunException", 0, Index_run(files, name, git.read_tree), TRUE)
    ELSE IF git.write_tree = 0
    THEN IndexResult("None", 0, Index_run(files, name, "ok"), TRUE)
    ELSE IndexResult("tree", git.write_tree, Index_run(files, name, "ok"), TRUE)

\* Repository.simple_merge of three Tree objects; "given" is a result that is one of
\* the arguments
simple_merge(files, name, base, ours, theirs, git) ==
    IF base = ours THEN IndexResult("given", theirs, files, FALSE)
    ELSE IF base = theirs THEN IndexResult("given", ours, files, FALSE)
    ELSE IF ours = theirs THEN IndexResult("given", ours, files, FALSE)
    ELSE finally_delete(simple_merge_try(temp_index(files, name), name, git), name)

\* the try block of apply: Index.read_tree, then Index.apply and Index.write_tree
\* whose MergeException gives None
apply_try(files, name, git) ==
    IF git.read_tree # "ok"
    THEN IndexResult("RunException", 0, Index_run(files, name, git.read_tree), TRUE)
    ELSE IF git.apply # "ok" \/ git.write_tree = 0
    THEN IndexResult("None", 0, Index_run(files, name, "ok"), TRUE)
    ELSE IndexResult("tree", git.write_tree, Index_run(files, name, "ok"), TRUE)

\* Repository.apply of a patch text, <<>> the empty text
apply(files, name, tree, patch_text, git) ==
    IF patch_text = <<>> THEN IndexResult("given", tree, files, FALSE)
    ELSE finally_delete(apply_try(temp_index(files, name), name, git), name)

NoRepoRes ==
    [op |-> "none", arg |-> <<>>, outcome |-> "none", obj |-> 0, index |-> 0,
     created |-> FALSE, git |-> <<>>, commits_before |-> NoObjects,
     trees_before |-> NoObjects, files_before |-> {}]

RepoRes(op, arg, outcome, obj) ==
    [NoRepoRes EXCEPT !.op = op, !.arg = arg, !.outcome = outcome, !.obj = obj,
                      !.commits_before = __commits, !.trees_before = __trees,
                      !.files_before = index_files]

\* a Repository on a store with refs, and index files that former processes left
InitRepo ==
    /\ StartLog(0, 0, 0, 0, <<>>)
    /\ NoReset
    /\ refstore \in {s \in [RefNames -> 0..MaxObjSha] :
                       s["refs/heads/master"] # 0 /\ s["refs/heads/master.stgit"] = 0}
    /\ refcache = <<NoRefs>>
    /\ pending = <<NoCall>>
    /\ rres = NoRefsRes
    /\ __commits = NoObjects
    /\ __trees = NoObjects
    /\ next_id = 0
    /\ handed = {}
    /\ index_files \in SUBSET IndexNames
    /\ ores = NoRepoRes

Hand(kind, sha, obj) == [kind |-> kind, sha |-> sha, obj |-> obj]

\* self.__commits[sha1] as the last step of the operation op
LookupCommit(op, arg, sha1) ==
    \E r \in {ObjectCache_getitem(__commits, sha1, next_id)} :
        /\ __commits' = r.objects
        /\ next_id' = r.next_id
        /\ handed' = handed \cup {Hand("commit", sha1, r.obj)}
        /\ ores' = RepoRes(op, arg, "ok", r.obj)
        /\ UNCHANGED __trees

\* Repository.get_commit
GetCommit ==
    /\ \E sha1 \in ObjShas : LookupCommit("get_commit", <<sha1>>, sha1)
    /\ UNCHANGED <<LogVars, RefsVars, ResetVars, index_files>>

\* Repository.get_tree
GetTree ==
    /\ \E sha1 \in TreeShas :
           \E r \in {ObjectCache_getitem(__trees, sha1, next_id)} :
               /\ __trees' = r.objects
               /\ next_id' = r.next_id
               /\ handed' = handed \cup {Hand("tree", sha1, r.obj)}
               /\ ores' = RepoRes("get_tree", <<sha1>>, "ok", r.obj)
    /\ UNCHANGED <<LogVars, RefsVars, ResetVars, __commits, index_files>>

\* Repository.commit: git commit-tree names the commit of the data, an old or a new one
RepoCommit ==
    /\ \E sha1 \in ObjShas : LookupCommit("commit", <<>>, sha1)
    /\ UNCHANGED <<LogVars, RefsVars, ResetVars, index_files>>

\* Repository.rev_parse: git rev-parse names a commit or fails
RevParse ==
    /\ \E sha1 \in 0..MaxObjSha :
           IF sha1 = 0
           THEN /\ ores' = RepoRes("rev_parse", <<>>, "RepositoryException", 0)
                /\ UNCHANGED <<__commits, __trees, next_id, handed>>
           ELSE LookupCommit("rev_parse", <<>>, sha1)
    /\ UNCHANGED <<LogVars, RefsVars, ResetVars, index_files>>

\* Refs.get of the Repository
RepoRefsGet ==
    /\ \E ref \in RefNames :
           \E c \in {IF refcache[1].cached THEN refcache[1] ELSE cache_refs(refstore)} :
               \E g \in {Refs_get(c, refstore, ref)} :
                   /\ refcache' = [refcache EXCEPT ![1] = c]
                   /\ IF g.outcome = "ok"
                      THEN LookupCommit("Refs.get", <<ref>>, g.value)
                      ELSE /\ ores' = RepoRes("Refs.get", <<ref>>, g.outcome, 0)
                           /\ UNCHANGED <<__commits, __trees, next_id, handed>>
    /\ UNCHANGED <<LogVars, refstore, pending, rres, ResetVars, index_files>>

\* the Tree objects the Repository has returned
Trees == {h \in handed : h.kind = "tree"}

\* the end of simple_merge and apply: the tree that write-tree names is looked up
IndexOp(op, arg, name, git, r) ==
    /\ index_files' = r.files
    /\ IF r.outcome = "tree"
       THEN \E t \in {ObjectCache_getitem(__trees, r.tree, next_id)} :
                /\ __trees' = t.objects
                /\ next_id' = t.next_id
                /\ handed' = handed \cup {Hand("tree", r.tree, t.obj)}
                /\ ores' = [RepoRes(op, arg, "ok", t.obj) EXCEPT
                                !.index = name, !.created = r.created, !.git = git]
       ELSE /\ ores' = [RepoRes(op, arg,
                                IF r.outcome = "given" THEN "ok" ELSE r.outcome,
                                r.tree) EXCEPT
                            !.index = name, !.created = r.created, !.git = git]
            /\ UNCHANGED <<__trees, next_id, handed>>
    /\ UNCHANGED __commits

\* Repository.simple_merge
SimpleMerge ==
    /\ \E base \in Trees, ours \in Trees, theirs \in Trees,
          name \in IndexNames, git \in GitRuns :
           /\ git.apply = "ok"
           /\ (base = ours \/ base = theirs \/ ours = theirs)
                  => git = GitRun("ok", "ok", 0)
           /\ IndexOp("simple_merge", <<base.obj, ours.obj, theirs.obj>>, name, git,
                      simple_merge(index_files, name, base.obj, ours.obj, theirs.obj,
                                   git))
    /\ UNCHANGED <<LogVars, RefsVars, ResetVars>>

PatchTexts == {<<>>, <<"diff">>}

\* Repository.apply
Apply ==
    /\ \E tree \in Trees, patch_text \in PatchTexts,
          name \in IndexNames, git \in GitRuns :
           /\ patch_text = <<>> => git = GitRun("ok", "ok", 0)
           /\ IndexOp("apply", <<tree.obj, patch_text>>, name, git,
                      apply(index_files, name, tree.obj, patch_text, git))
    /\ UNCHANGED <<LogVars, RefsVars, ResetVars>>

\* the lookups of a Repository
NextRepo ==
    \/ GetCommit
    \/ GetTree
    \/ RepoCommit
    \/ RevParse
    \/ RepoRefsGet

SpecRepo == InitRepo /\ [][NextRepo]_vars

\* merges and patch applications on the trees of a Repository
NextIndex ==
    \/ GetTree
    \/ SimpleMerge
    \/ Apply

SpecIndex == InitRepo /\ [][NextIndex]_vars

----------------------------------------------------------------------------
(* Reset of a transaction to a log entry (SpecReset) *)

\* the elements of s that are in P, and those that are not, in the order of s
Keep(s, P) ==
    LET In(x) == x \in P
    IN SelectSeq(s, In)

Drop(s, P) ==
    LET Out(x) == x \notin P
    IN SelectSeq(s, Out)

\* LogEntry.base
base(objs, e) ==
    IF e.applied # <<>> THEN objs[e.patches[e.applied[1]]].parents[1] ELSE e.head

\* a patch that is not, as a value of the patch mapping (None)
NoPatch == 0

\* a transaction on the stack: copies of its lists and of its patch mapping
StackTransaction(objs, stk) ==
    [patches |-> stk.patches, applied |-> stk.applied, unapplied |-> stk.unapplied,
     hidden |-> stk.hidden, base |-> base(objs, stk), head |-> stk.head]

\* the commit the next pushed patch goes on
trans_top(t) ==
    IF t.applied # <<>> THEN t.patches[Last(t.applied)] ELSE t.base

\* the place of the first element of s that is in P, 0 if there is none
FirstIn(s, P) ==
    IF \E i \in 1..Len(s) : s[i] \in P
    THEN Min({i \in 1..Len(s) : s[i] \in P})
    ELSE 0

pop_from(t, P, i, popped) ==
    IF i = 0 THEN t
    ELSE [t EXCEPT !.applied = SubSeq(t.applied, 1, i - 1),
                   !.unapplied = Drop(popped, P) \o Keep(popped, P) \o t.unapplied]

\* trans.pop_patches(p), P the names p holds of: the first applied patch in P and all
\* above it are popped in one go
pop_patches(t, P) ==
    pop_from(t, P, FirstIn(t.applied, P),
             SubSeq(t.applied, FirstIn(t.applied, P), Len(t.applied)))

delete_from(t, P, i, popped) ==
    [t EXCEPT !.applied = IF i = 0 THEN t.applied ELSE SubSeq(t.applied, 1, i - 1),
              !.unapplied = Drop(popped, P) \o Drop(t.unapplied, P),
              !.hidden = Drop(t.hidden, P),
              !.patches = Fn([pn \in DOMAIN t.patches |->
                                 IF pn \in P /\ pn \in Range(all_patches(t))
                                 THEN NoPatch ELSE t.patches[pn]])]

\* trans.delete_patches(p): the patches in P leave the lists and their commits are
\* cleared
delete_patches(t, P) ==
    delete_from(t, P, FirstIn(t.applied, P),
                IF FirstIn(t.applied, P) = 0 THEN <<>>
                ELSE SubSeq(t.applied, FirstIn(t.applied, P) + 1, Len(t.applied)))

\* what a push does: the patch applies, it does not and nothing is changed, or it is
\* applied with conflicts; the transaction halts in the last two
PushOutcomes == {"ok", "halt", "conflict"}

PushResult(t, objs, outcome) == [trans |-> t, objects |-> objs, outcome |-> outcome]

\* the patch goes from unapplied or hidden to the end of applied with the commit c
pushed_with(t, pn, c) ==
    [t EXCEPT !.applied = Append(t.applied, pn),
              !.unapplied = IF pn \in Range(t.hidden) THEN t.unapplied
                            ELSE Drop(t.unapplied, {pn}),
              !.hidden = Drop(t.hidden, {pn}),
              !.patches = DictSet(t.patches, pn, c)]

\* trans.push_patch(pn, iw): a patch whose commit sits on the top keeps its commit; any
\* other is merged onto the top, which gives a new commit or fails
push_patch(objs, t, pn, how) ==
    IF objs[t.patches[pn]].parents = <<trans_top(t)>>
    THEN PushResult(pushed_with(t, pn, t.patches[pn]), objs, "ok")
    ELSE IF how = "halt"
    THEN PushResult(t, objs, "StackTransactionHalt")
    ELSE PushResult(pushed_with(t, pn, Len(UserCommit(objs, <<trans_top(t)>>))),
                    UserCommit(objs, <<trans_top(t)>>),
                    IF how = "ok" THEN "ok" ELSE "StackTransactionHalt")

\* reset_stack that clears no patch
reset_stack_keeping(t, s) ==
    [patches |-> Fn([pn \in DOMAIN t.patches \cup Range(all_patches(s)) |->
                        IF pn \in Range(all_patches(s)) THEN s.patches[pn]
                        ELSE t.patches[pn]]),
     applied |-> s.applied, unapplied |-> s.unapplied, hidden |-> s.hidden,
     base |-> s.base, head |-> s.head]

\* reset_stack(trans, iw, state), s the state with its base
reset_stack(t, s) ==
    [patches |-> Fn([pn \in DOMAIN t.patches \cup Range(all_patches(s)) |->
                        IF pn \in Range(all_patches(s)) THEN s.patches[pn]
                        ELSE IF pn \in Range(all_patches(t)) THEN NoPatch
                        ELSE t.patches[pn]]),
     applied |-> s.applied, unapplied |-> s.unapplied, hidden |-> s.hidden,
     base |-> s.base, head |-> s.head]

\* state.patches.get(pn, None)
patches_get(s, pn) == IF pn \in DOMAIN s.patches THEN s.patches[pn] ELSE NoPatch

\* every patch of the state, in only_patches or not
patches_to_reset_all(s, only_patches) == Range(all_patches(s))

patches_to_reset(s, only_patches) == Range(all_patches(s)) \cap only_patches

to_delete(t, s, only_patches) ==
    (Range(all_patches(t)) \ patches_to_reset(s, only_patches)) \cap only_patches

\* mod that holds of the patches to delete only
mod_to_delete(t, s, only_patches) == to_delete(t, s, only_patches)

\* the patches mod(pn) holds of
mod(t, s, only_patches) ==
    {pn \in Range(all_patches(t)) \cap only_patches :
         \/ pn \in to_delete(t, s, only_patches)
         \/ t.patches[pn] # patches_get(s, pn)}

\* the loop that resets the patches that exist and brings none back
reset_patch_existing(t, s, pn, existing_patches) ==
    IF pn \in existing_patches /\ t.patches[pn] # s.patches[pn]
    THEN [t EXCEPT !.patches = DictSet(t.patches, pn, s.patches[pn])]
    ELSE t

\* the loop that brings every patch back as unapplied
reset_patch_unapplied(t, s, pn, existing_patches) ==
    IF pn \in existing_patches
    THEN IF t.patches[pn] = s.patches[pn] THEN t
         ELSE [t EXCEPT !.patches = DictSet(t.patches, pn, s.patches[pn])]
    ELSE [t EXCEPT !.unapplied = Append(t.unapplied, pn),
                   !.patches = DictSet(t.patches, pn, s.patches[pn])]

\* one patch of the loop over patches_to_reset
reset_patch(t, s, pn, existing_patches) ==
    IF pn \in existing_patches
    THEN IF t.patches[pn] = s.patches[pn] THEN t
         ELSE [t EXCEPT !.patches = DictSet(t.patches, pn, s.patches[pn])]
    ELSE [t EXCEPT !.hidden = IF pn \in Range(s.hidden) THEN Append(t.hidden, pn)
                              ELSE t.hidden,
                   !.unapplied = IF pn \in Range(s.hidden) THEN t.unapplied
                                 ELSE Append(t.unapplied, pn),
                   !.patches = DictSet(t.patches, pn, s.patches[pn])]

\* the loop over patches_to_reset, todo the patches in the order the set gives them
RECURSIVE reset_patches(_, _, _, _)
reset_patches(t, s, todo, existing_patches) ==
    IF todo = <<>> THEN t
    ELSE reset_patches(reset_patch(t, s, Head(todo), existing_patches), s, Tail(todo),
                       existing_patches)

\* reset_stack_partially up to the pushes: the pop, the deletion and the loop over
\* patches_to_reset
reset_before_push(t, s, only_patches, todo) ==
    reset_patches(delete_patches(pop_patches(t, mod(t, s, only_patches)),
                                 to_delete(t, s, only_patches)),
                  s, todo, Range(all_patches(t)))

LoopResult(r, pushed) ==
    [trans |-> r.trans, objects |-> r.objects, outcome |-> r.outcome, pushed |-> pushed]

\* the loop over original_applied_order: a patch that was unapplied or hidden after
\* the loop over patches_to_reset is pushed, and a push that fails ends the loop
RECURSIVE push_popped(_, _, _, _, _, _)

\* the loop that goes on after a push that failed
push_after_failure(r, order, pushable, hows, pushed) ==
    push_popped(r.objects, r.trans, order, pushable, hows, pushed)

push_after(r, order, pushable, hows, pushed) ==
    IF r.outcome # "ok" THEN LoopResult(r, pushed)
    ELSE push_popped(r.objects, r.trans, order, pushable, hows, pushed)

push_popped(objs, t, order, pushable, hows, pushed) ==
    IF order = <<>> THEN LoopResult(PushResult(t, objs, "ok"), pushed)
    ELSE IF Head(order) \in pushable
    THEN push_after(push_patch(objs, t, Head(order), hows[Len(pushed) + 1]),
                    Tail(order), pushable, hows, Append(pushed, Head(order)))
    ELSE push_popped(objs, t, Tail(order), pushable, hows, pushed)

\* reset_stack_partially(trans, iw, state, only_patches) from the transaction before
\* the pushes
reset_stack_partially(objs, t, middle, hows) ==
    push_popped(objs, middle, t.applied, Range(middle.unapplied \o middle.hidden),
                hows, <<>>)

\* the names of the patches p1 .. pn, and the number of a name
PatchNames(n) == {PatchName(i) : i \in 1..n}

PatchIndex(pn) == CHOOSE i \in 1..(MaxResetNames + 1) : PatchName(i) = pn

\* the patches of a set in the order in which a loop over the set takes them
Iteration(S, order) ==
    [k \in 1..Cardinality(S) |-> PatchName(ListOf({PatchIndex(pn) : pn \in S}, order)[k])]

Roles == {"applied", "unapplied", "hidden", "absent"}

\* the patches that have the role in the state to restore, by number
WithRole(roles, role) ==
    [k \in 1..Cardinality({i \in DOMAIN roles : roles[i] = role}) |->
         PatchName(Sorted({i \in DOMAIN roles : roles[i] = role})[k])]

TargetResult(objs, patches, c) == [objects |-> objs, patches |-> patches, top |-> c]

\* the commits of the state to restore: a patch has the commit it has now if it was not
\* changed since (modified) and, when applied, still sits on the same commit, and a
\* commit of its own otherwise
RECURSIVE TargetCommits(_, _, _, _, _, _)
TargetCommits(r, cur, names, napplied, modified, k) ==
    IF k > Len(names) THEN r
    ELSE TargetCommits(
             IF /\ names[k] \in DOMAIN cur.patches
                /\ names[k] \notin modified
                /\ k <= napplied => r.objects[cur.patches[names[k]]].parents = <<r.top>>
             THEN TargetResult(r.objects,
                               DictSet(r.patches, names[k], cur.patches[names[k]]),
                               IF k <= napplied THEN cur.patches[names[k]] ELSE r.top)
             ELSE TargetResult(UserCommit(r.objects,
                                          <<IF k <= napplied THEN r.top ELSE Root>>),
                               DictSet(r.patches, names[k], Len(UserCommit(r.objects, <<r.top>>))),
                               IF k <= napplied THEN Len(UserCommit(r.objects, <<r.top>>)) ELSE r.top),
             cur, names, napplied, modified, k + 1)

\* the stack at the time of the state to restore
TargetStack(r, roles) ==
    [head |-> r.top, applied |-> WithRole(roles, "applied"),
     unapplied |-> WithRole(roles, "unapplied"), hidden |-> WithRole(roles, "hidden"),
     patches |-> r.patches, next |-> 0]

\* the log entry of that stack, with its base
TargetState(r, roles) ==
    from_stack(None, TargetStack(r, roles), << <<"target">> >>)
        @@ [base |-> base(r.objects, TargetStack(r, roles))]

NoResetRes ==
    [op |-> "none", only_patches |-> {}, outcome |-> "none", before |-> <<>>,
     popped |-> <<>>, middle |-> <<>>, pushed |-> <<>>, nobj |-> 0]

\* the log model at rest
LogIdle ==
    /\ gitref = 0
    /\ refs = 0 - 1
    /\ entries = <<>>
    /\ res = NoRes
    /\ nops = 0
    /\ meta = <<>>
    /\ parsed = NoParse
    /\ log = NoParse
    /\ undo_steps = 0
    /\ trace = <<>>

StartReset(cur, r, roles) ==
    /\ LogIdle
    /\ NoRefsCalls
    /\ NoRepository
    /\ objects = r.objects
    /\ stack = cur
    /\ trans = StackTransaction(r.objects, cur)
    /\ state = TargetState(r, roles)
    /\ tres = NoResetRes

\* a stack of up to MaxResetNames patches and a state to restore over the same names
\* in any roles; and the stack of MaxResetNames applied patches with a state in which
\* the second is modified and one more patch is hidden
InitReset ==
    \E a \in 0..MaxResetNames, u \in 0..MaxResetNames, h \in 0..MaxResetNames,
       n \in {MaxResetNames, MaxResetNames + 1} :
        \E roles \in [1..n -> Roles], modified \in SUBSET PatchNames(a + u + h) :
            /\ a + u + h <= MaxResetNames
            /\ modified \subseteq {PatchName(i) : i \in {j \in 1..n : roles[j] # "absent"}}
            /\ n > MaxResetNames
                   => /\ a = MaxResetNames
                      /\ roles = [i \in 1..n |-> IF i = n THEN "hidden" ELSE "applied"]
                      /\ modified = {PatchName(2)}
            /\ StartReset(InitStack(a, u, h),
                          TargetCommits(
                              TargetResult(InitObjects(UserCommit(<<>>, <<>>), a, a + u + h),
                                           <<>>, Root),
                              InitStack(a, u, h),
                              WithRole(roles, "applied") \o WithRole(roles, "unapplied")
                                  \o WithRole(roles, "hidden"),
                              Len(WithRole(roles, "applied")), modified, 1),
                          roles)

\* stg reset: reset_stack
ResetStack ==
    /\ tres.op = "none"
    /\ trans' = reset_stack(trans, state)
    /\ tres' = [NoResetRes EXCEPT !.op = "reset_stack", !.outcome = "ok",
                                  !.before = trans]
    /\ UNCHANGED <<LogVars, RefsVars, RepoVars, state>>

\* the pushes of which the f-th fails the way how says, if it needs a merge
Pushes(f, how) == [i \in 1..(MaxResetNames + 1) |-> IF i = f THEN how ELSE "ok"]

\* stg reset with patch names, stg undo of some patches: reset_stack_partially
ResetStackPartially ==
    /\ tres.op = "none"
    /\ \E only_patches \in SUBSET (Range(all_patches(trans)) \cup Range(all_patches(state))),
          order \in Orders, f \in 0..MaxResetNames, how \in PushOutcomes \ {"ok"} :
           \E middle \in {reset_before_push(trans, state, only_patches,
                              Iteration(patches_to_reset(state, only_patches), order))} :
               \E r \in {reset_stack_partially(objects, trans, middle, Pushes(f, how))} :
                   /\ trans' = r.trans
                   /\ objects' = r.objects
                   /\ tres' = [op |-> "reset_stack_partially",
                               only_patches |-> only_patches, outcome |-> r.outcome,
                               before |-> trans,
                               popped |-> pop_patches(trans,
                                                      mod(trans, state, only_patches)),
                               middle |-> middle, pushed |-> r.pushed,
                               nobj |-> Len(objects)]
    /\ UNCHANGED <<gitref, refs, stack, entries, res, nops, ParseVars, UndoVars>>
    /\ UNCHANGED <<RefsVars, RepoVars, state>>

NextReset ==
    \/ ResetStack
    \/ ResetStackPartially

SpecReset == InitReset /\ [][NextReset]_vars

----------------------------------------------------------------------------
(* Properties of the written log (Spec) *)

\* the commits an entry has to keep alive: head, the unapplied and hidden patches, the
\* last applied patch and the previous entry's full commit
C1_Needed(e) ==
    {e.head}
    \cup {e.patches[e.unapplied[i]] : i \in 1..Len(e.unapplied)}
    \cup {e.patches[e.hidden[i]] : i \in 1..Len(e.hidden)}
    \cup (IF Len(e.applied) > 0 THEN {e.patches[e.applied[Len(e.applied)]]} ELSE {})
    \cup (IF e._prev.commit # 0 THEN {e._prev.commit} ELSE {})

\* C1: GC-safety.  For every entry written, the head, every unapplied and hidden patch
\* commit, the last applied patch commit and the previous entry's full commit are
\* transitive ancestors of the entry's full commit, also when _parents dropped the
\* commits of the previous entry's patches and when parents were folded into grouping
\* commits.
C1_GCSafety ==
    \A i \in 1..Len(entries) :
        C1_Needed(entries[i].entry)
        \subseteq Ancestors(objects, Range(objects[entries[i].entry.commit].parents), {})

\* an entry that needs commits which are not among its parents, in a log with an entry
\* whose parents were folded
C1_Witness ==
    /\ \E i \in 1..Len(entries) :
           /\ entries[i].entry._prev.commit # 0
           /\ ~(C1_Needed(entries[i].entry) \subseteq entries[i].required)
    /\ \E i \in 1..Len(entries) : entries[i].groups # {}

\* C2: no commit created by write_commit (simplified, grouping or full commit) has more
\* than 16 direct parents, whatever the number of required parents.
C2_ParentCap ==
    \A c \in 1..Len(objects) :
        objects[c].kind = "commit" => Len(objects[c].parents) <= 16

\* an entry written with grouping commits of 16 parents each
C2_Witness ==
    \E i \in 1..Len(entries) :
        /\ entries[i].groups # {}
        /\ \A g \in entries[i].groups : Len(objects[g].parents) = 16

\* the commits that are no grouping commits, reached from the commits of S through
\* grouping commits
RECURSIVE C3_Through(_)
C3_Through(S) ==
    IF \A c \in S : objects[c].message # Grouping THEN S
    ELSE C3_Through({c \in S : objects[c].message # Grouping}
                    \cup UNION {Range(objects[c].parents) :
                                   c \in {g \in S : objects[g].message = Grouping}})

\* C3: parent grouping preserves ancestry.  For an entry that requires more than 16
\* parents, the commits reached from the full commit through its parents and through
\* grouping commits are the simplified commit and the required parents, no more and no
\* fewer.
C3_GroupingPreservesAncestry ==
    \A i \in 1..Len(entries) :
        Cardinality(entries[i].required) > 16
        => C3_Through(Range(objects[entries[i].entry.commit].parents))
           = {entries[i].entry.simplified} \cup entries[i].required

\* an entry with more than 16 required parents, folded twice
C3_Witness ==
    \E i \in 1..Len(entries) :
        /\ Cardinality(entries[i].required) > 16
        /\ Cardinality(entries[i].groups) >= 2

\* C4: round trip.  from_commit on the commit of a written entry gives the head, the
\* applied, unapplied and hidden lists, the patches mapping and the message of the
\* entry that was written.
C4_RoundTrip ==
    \A i \in 1..Len(entries) :
        LET e == entries[i].entry
            d == from_commit(objects, e.commit)
        IN /\ d.err = "none"
           /\ d.head = e.head
           /\ d.applied = e.applied
           /\ d.unapplied = e.unapplied
           /\ d.hidden = e.hidden
           /\ d.patches = e.patches
           /\ d.message = e.message

\* a written entry with applied, unapplied and hidden patches and a previous entry
C4_Witness ==
    \E i \in 1..Len(entries) :
        /\ entries[i].entry._prev.commit # 0
        /\ entries[i].entry.applied # <<>>
        /\ entries[i].entry.unapplied # <<>>
        /\ entries[i].entry.hidden # <<>>

\* the entry at the tip of the log when the last call began describes the stack
C5_TipIsStack ==
    /\ res.ref # 0
    /\ LET d == from_commit(objects, res.ref)
       IN /\ d.err = "none"
          /\ d.head = stack.head
          /\ d.applied = stack.applied
          /\ d.unapplied = stack.unapplied
          /\ d.hidden = stack.hidden
          /\ d.patches = stack.patches

\* C5: idempotence.  A call of log_entry with the stack as the entry at the tip of the
\* log describes it writes no object and leaves the ref at that entry, whatever the
\* message.
C5_Idempotence ==
    (res.op = "log_entry" /\ C5_TipIsStack)
    => /\ res.outcome = "same"
       /\ gitref = res.ref
       /\ Len(objects) = res.nobj

\* log_entry with an unchanged stack and another message than that of the tip
C5_Witness ==
    /\ res.op = "log_entry"
    /\ C5_TipIsStack
    /\ res.arg # from_commit(objects, res.ref).message

\* C8: a failure to read the entry at the tip never leaves log_entry: it warns, writes
\* nothing and leaves the ref.
C8_ReadFailureNeverPropagates ==
    (res.op = "log_entry" /\ res.ref # 0 /\ from_commit(objects, res.ref).err # "none")
    => /\ res.outcome = "warned"
       /\ gitref = res.ref
       /\ Len(objects) = res.nobj

----------------------------------------------------------------------------
(* Properties of decoding (SpecParse) *)

\* the metadata decoded begins with a version line, and its version
C6_HasVersion ==
    meta # <<>> /\ Len(meta[1]) >= 2 /\ meta[1][1] = "Version" /\ meta[1][2] = ":"
C6_VersionStr == Strip(SubSeq(meta[1], 3, Len(meta[1])))

\* C6: version rejection.  A version above 1 is rejected as too new, a version below 1
\* as too old, a version that is no integer as a parse error; an entry is decoded only
\* from version 1.
C6_VersionRejection ==
    (res.op = "from_commit" /\ C6_HasVersion)
    => /\ (IsInt(C6_VersionStr) /\ IntVal(C6_VersionStr) > 1)
              => parsed.err = "LogException: Log is too new"
       /\ (IsInt(C6_VersionStr) /\ IntVal(C6_VersionStr) < 1)
              => parsed.err = "LogException: Log is too old"
       /\ ~IsInt(C6_VersionStr)
              => parsed.err = "LogParseException: Malformed version number"
       /\ parsed.err = "none" => (IsInt(C6_VersionStr) /\ IntVal(C6_VersionStr) = 1)

\* metadata of version 2 that is well-formed otherwise, decoded and rejected
C6_Witness ==
    /\ res.op = "from_commit"
    /\ C6_HasVersion
    /\ C6_VersionStr = <<"2">>
    /\ Len(meta) > 1
    /\ parsed.err = "LogException: Log is too new"

\* C7: metadata of version 1 that does not decode is rejected with LogParseException.
C7_MalformedIsParseError ==
    (/\ res.op = "from_commit"
     /\ C6_HasVersion
     /\ C6_VersionStr = <<"1">>
     /\ parsed.err # "none")
    => parsed.err \in LogParseExceptions

----------------------------------------------------------------------------
(* Properties of undo_state (SpecUndo) *)

\* the place in the log of the entry with the commit c, the oldest entry being 1
C9_Place(c) == CHOOSE i \in 1..Len(entries) : entries[i].entry.commit = c

\* the k of the entry at place i when its message is `undo <k>`, -1 otherwise
C9_Marker(i) == re_match("undo", Strip(Join(entries[i].entry.message)))

\* where n > 0 steps from place i end by the rules: a marker adds its k, any other
\* entry takes one step, the cursor moves on after each; 0 when the log ends first
RECURSIVE C9_Land(_, _)
C9_Land(i, n) ==
    IF n = 0 THEN i
    ELSE IF i = 1 THEN 0
    ELSE C9_Land(i - 1, IF C9_Marker(i) >= 0 THEN n + C9_Marker(i) ELSE n - 1)

\* C9: undo_state with n >= 0.  At each visited entry a message `undo <k>` adds k to
\* the count and any other message takes one from it; the cursor moves to prev after
\* each; the entry returned is the cursor when the count is 0: the entry n links
\* behind the tip on a log without markers, the tip for n = 0.
C9_UndoCount ==
    (res.op = "undo_state" /\ res.arg >= 0 /\ res.ref # 0)
    => /\ \A t \in 1..Len(trace) :
              /\ trace[t].after =
                     IF C9_Marker(C9_Place(trace[t].entry)) >= 0
                     THEN trace[t].before + C9_Marker(C9_Place(trace[t].entry))
                     ELSE trace[t].before - 1
              /\ C9_Place(trace[t].entry) = Len(entries) + 1 - t
       /\ res.outcome = "returned"
              => /\ undo_steps = 0
                 /\ C9_Place(log.commit) = C9_Land(Len(entries), res.arg)
                 /\ (\A i \in 1..Len(entries) : C9_Marker(i) < 0)
                        => C9_Place(log.commit) = Len(entries) - res.arg
       /\ res.outcome \notin {"running", "returned"}
              => C9_Land(Len(entries), res.arg) = 0

\* an undo that met a marker, added its steps and returned an entry
C9_Witness ==
    /\ res.op = "undo_state"
    /\ res.arg > 0
    /\ res.outcome = "returned"
    /\ \E t \in 1..Len(trace) : trace[t].after > trace[t].before

\* the log of the scenario: plain, undo 2, undo 2 from the oldest to the newest, and one
\* step of undo asked for and done with
C10_Scenario ==
    /\ res.op = "undo_state"
    /\ res.arg = 1
    /\ res.outcome # "running"
    /\ Len(entries) = 3
    /\ entries[1].entry.message = << <<"plain">> >>
    /\ entries[2].entry.message = << <<"undo", " ", "2">> >>
    /\ entries[3].entry.message = << <<"undo", " ", "2">> >>

\* C10 as the code has it: on the log plain, undo 2, undo 2 one step of undo counts
\* 1 -> 3 -> 5 -> 4 over the three entries and then fails, the log being at its end
\* with steps left.
C10_FoldingRunsOut ==
    C10_Scenario
    => /\ res.outcome = "LogException: Not enough undo information available"
       /\ [t \in 1..Len(trace) |-> trace[t].after] = <<3, 5, 4>>

C10_Witness ==
    /\ C10_Scenario
    /\ res.outcome = "LogException: Not enough undo information available"

\* C10 as stated: on that log one step of undo succeeds and lands on the entry past
\* both markers.
C10_FoldingLands ==
    C10_Scenario
    => /\ res.outcome = "returned"
       /\ log.commit = entries[1].entry.commit

----------------------------------------------------------------------------
(* Redo (SpecUndo) *)

\* the k of the entry with commit c when its message is `redo <k>`, -1 otherwise
C11_Redo(c) == re_match("redo", Strip(Join(entries[C9_Place(c)].entry.message)))

\* the k of the entry with commit c when its message is `undo <k>`, -1 otherwise
C11_Undo(c) == C9_Marker(C9_Place(c))

\* C11 as the code has it: undo_state with n < 0.  At each visited entry a message
\* `undo <k>` takes one step (the count goes up by one), a message `redo <k>`
\* subtracts k, and the cursor moves to prev after either; any other message ends the
\* redo with 'No more redo information available', the count unchanged.
C11_RedoCount ==
    (res.op = "undo_state" /\ res.arg < 0 /\ res.ref # 0)
    => /\ \A t \in 1..Len(trace) :
              /\ C9_Place(trace[t].entry) = Len(entries) + 1 - t
              /\ C11_Undo(trace[t].entry) >= 0 => trace[t].after = trace[t].before + 1
              /\ C11_Redo(trace[t].entry) >= 0
                     => trace[t].after = trace[t].before - C11_Redo(trace[t].entry)
              /\ (C11_Undo(trace[t].entry) < 0 /\ C11_Redo(trace[t].entry) < 0)
                     => /\ trace[t].after = trace[t].before
                        /\ t = Len(trace)
                        /\ res.outcome = "LogException: No more redo information available"
       /\ res.outcome = "LogException: No more redo information available"
              => /\ trace # <<>>
                 /\ C11_Undo(trace[Len(trace)].entry) < 0
                 /\ C11_Redo(trace[Len(trace)].entry) < 0

\* a redo that subtracted the k of a `redo <k>` entry and then ended at a plain entry
C11_Witness ==
    /\ res.op = "undo_state"
    /\ res.arg < 0
    /\ res.outcome = "LogException: No more redo information available"
    /\ \E t \in 1..Len(trace) : trace[t].after < trace[t].before

\* C11 as stated: with n < 0 a `redo <k>` entry subtracts k and every other entry, a
\* plain one included, takes exactly one step without failing, the cursor moving to
\* prev after it.
C11_RedoConsumes ==
    (res.op = "undo_state" /\ res.arg < 0 /\ res.ref # 0)
    => /\ \A t \in 1..Len(trace) :
              /\ C9_Place(trace[t].entry) = Len(entries) + 1 - t
              /\ trace[t].after =
                     IF C11_Redo(trace[t].entry) >= 0
                     THEN trace[t].before - C11_Redo(trace[t].entry)
                     ELSE trace[t].before + 1
       /\ res.outcome # "LogException: No more redo information available"

\* C12: the end of the log is reported by direction.  When undo_state stops because
\* the cursor has no prev with steps left, an undo (n > 0) reports 'Not enough undo
\* information available' and a redo (n < 0) 'No more redo information available';
\* a redo never reports the undo cause.
C12_ExhaustionByDirection ==
    (/\ res.op = "undo_state"
     /\ res.ref # 0
     /\ res.outcome \notin {"running", "returned"}
     /\ undo_steps # 0
     /\ Len(trace) = Len(entries)
     /\ trace[Len(trace)].after # trace[Len(trace)].before)
    => res.outcome = IF res.arg > 0
                     THEN "LogException: Not enough undo information available"
                     ELSE "LogException: No more redo information available"

----------------------------------------------------------------------------
(* Termination and redo of undo_state (SpecUndoFair, SpecUndo) *)

\* C28: undo_state terminates.  On every log and for every step count, positive or
\* negative, a call that has entered its loop leaves it, with an entry or with an
\* error; the loop visits the entries from the tip down, none twice, so it makes no
\* more iterations than the log has entries, whatever the markers add to the count.
C28_Terminates ==
    /\ []((res.op = "undo_state" /\ res.ref # 0)
          => /\ Len(trace) <= Len(entries)
             /\ \A t, u \in 1..Len(trace) : trace[t].entry = trace[u].entry => t = u
             /\ \A t \in 1..Len(trace) : C9_Place(trace[t].entry) = Len(entries) + 1 - t)
    /\ Running ~> (res.op = "undo_state" /\ res.outcome # "running")

\* a call that has ended after visiting the whole log, a marker having moved the
\* count away from zero
C28_Witness ==
    /\ res.op = "undo_state"
    /\ res.outcome # "running"
    /\ Len(entries) = MaxChain
    /\ Len(trace) = MaxChain
    /\ \E t \in 1..Len(trace) :
           \/ trace[t].after > trace[t].before /\ trace[t].before > 0
           \/ trace[t].after < trace[t].before /\ trace[t].before < 0

\* the j newest entries of the log are `undo <k>` markers and there is an entry before
\* them
C29_Markers(j) ==
    /\ j < Len(entries)
    /\ \A i \in (Len(entries) - j + 1)..Len(entries) : C9_Marker(i) >= 0

\* C29: redo inverts undo.  When the -n newest entries are `undo <k>` markers, of any
\* k, and P is the entry before the oldest of them, undo_state with the count n < 0
\* returns P: each marker takes one step of the redo and the cursor is at P when the
\* count is 0.
C29_RedoInvertsUndo ==
    (res.op = "undo_state" /\ res.arg < 0 /\ res.ref # 0 /\ C29_Markers(0 - res.arg))
    => /\ res.outcome \in {"running", "returned"}
       /\ res.outcome = "returned"
              => /\ log.commit = entries[Len(entries) + res.arg].entry.commit
                 /\ Len(trace) = 0 - res.arg
                 /\ undo_steps = 0

\* a redo of two steps over two markers, one of them `undo 2`, that returned the entry
\* before them
C29_Witness ==
    /\ res.op = "undo_state"
    /\ res.arg = 0 - 2
    /\ C29_Markers(2)
    /\ \E i \in (Len(entries) - 1)..Len(entries) : C9_Marker(i) = 2
    /\ res.outcome = "returned"
    /\ log.commit = entries[Len(entries) - 2].entry.commit

\* the entry at place i was written by an ordinary operation: its message is neither
\* `undo <k>` nor `redo <k>`
C30_Plain(i) ==
    /\ C9_Marker(i) < 0
    /\ re_match("redo", Strip(Join(entries[i].entry.message))) < 0

\* C30: redo is available only over markers.  undo_state with n < 0 ends with 'No more
\* redo information available' at the first plain entry it inspects with steps left,
\* returning no entry; with a plain entry at the tip every redo ends so at the tip.
C30_RedoOnlyOverMarkers ==
    (res.op = "undo_state" /\ res.arg < 0 /\ res.ref # 0)
    => /\ \A t \in 1..Len(trace) :
              C30_Plain(Len(entries) + 1 - t)
                  => /\ t = Len(trace)
                     /\ trace[t].before < 0
                     /\ res.outcome = "LogException: No more redo information available"
       /\ C30_Plain(Len(entries))
              => /\ res.outcome \in {"running",
                                     "LogException: No more redo information available"}
                 /\ Len(trace) = IF res.outcome = "running" THEN 0 ELSE 1
       /\ res.outcome = "returned"
              => \A t \in 1..Len(trace) : ~C30_Plain(Len(entries) + 1 - t)

\* a redo that went over a marker and ended at a plain entry below the tip
C30_Witness ==
    /\ res.op = "undo_state"
    /\ res.arg < 0
    /\ Len(trace) > 1
    /\ C30_Plain(Len(entries) + 1 - Len(trace))
    /\ res.outcome = "LogException: No more redo information available"

----------------------------------------------------------------------------
(* Refs (SpecRefs) *)

\* the last call is a Refs.set or Refs.delete that ran update-ref
C13_Update == rres.op \in {"set", "delete"} /\ rres.issued

\* the value the last call asked the store to take
C13_New == IF rres.op = "delete" THEN 0 ELSE rres.new

C14_CacheOnlyOnSuccess ==
    rres.op \in {"get", "set", "delete"}
    => /\ refcache[rres.proc] # rres.cache_before
              => /\ rres.issued
                 /\ rres.outcome = "ok"
                 /\ refstore # rres.store_before
       /\ (rres.op # "get" /\ rres.outcome # "ok")
              => refcache[rres.proc] = rres.cache_before
       /\ (rres.op = "set" /\ rres.outcome = "ok")
              => /\ Refs_get(refcache[rres.proc], refstore, rres.ref).outcome = "ok"
                 /\ Refs_get(refcache[rres.proc], refstore, rres.ref).value = rres.new
       /\ (rres.op = "delete" /\ rres.outcome = "ok")
              => Refs_get(refcache[rres.proc], refstore, rres.ref).outcome = "KeyError"
       /\ (rres.op = "set" /\ rres.new = rres.cache_before.refs[rres.ref])
              => /\ ~rres.issued
                 /\ refstore = rres.store_before
                 /\ refcache[rres.proc] = rres.cache_before

\* a set the store rejected, the ref having been changed since the process cached it
C14_Witness ==
    /\ rres.op = "set"
    /\ rres.issued
    /\ rres.outcome = "RunException"
    /\ refcache[rres.proc].refs[rres.ref] # refstore[rres.ref]
    /\ refcache[rres.proc].refs[rres.ref] # 0

----------------------------------------------------------------------------
(* Object caches (SpecRepo) and temporary indexes (SpecIndex) *)

\* the cache of the objects of a kind
C15_Cache(kind) == IF kind = "commit" THEN __commits ELSE __trees

\* C15: single instance per hash.  Whatever get_commit, get_tree, commit, rev_parse and
\* Refs.get calls were made, two objects of a kind that the Repository returned are
\* the same object exactly when their sha1s are equal, every object returned is the
\* entry of its sha1 in the cache, and the last call has neither replaced nor removed
\* an entry that the cache had before it.
C15_SingleInstance ==
    /\ \A h1 \in handed, h2 \in handed :
           h1.kind = h2.kind => (h1.obj = h2.obj <=> h1.sha = h2.sha)
    /\ \A h \in handed :
           /\ h.sha \in DOMAIN C15_Cache(h.kind)
           /\ C15_Cache(h.kind)[h.sha] = h.obj
    /\ \A sha1 \in DOMAIN ores.commits_before :
           /\ sha1 \in DOMAIN __commits
           /\ __commits[sha1] = ores.commits_before[sha1]
    /\ \A sha1 \in DOMAIN ores.trees_before :
           /\ sha1 \in DOMAIN __trees
           /\ __trees[sha1] = ores.trees_before[sha1]

\* rev_parse returned the Commit object that an earlier call had created, with
\* another Commit and a Tree of the same sha1 in the caches
C15_Witness ==
    /\ ores.op = "rev_parse"
    /\ ores.outcome = "ok"
    /\ \E sha1 \in DOMAIN ores.commits_before :
           /\ ores.commits_before[sha1] = ores.obj
           /\ sha1 \in DOMAIN __trees
    /\ \E h \in handed : h.kind = "commit" /\ h.obj # ores.obj

\* the last call is a simple_merge or an apply on a path that has no short cut
C16_NeedsIndex ==
    \/ /\ ores.op = "simple_merge"
       /\ ores.arg[1] # ores.arg[2]
       /\ ores.arg[1] # ores.arg[3]
       /\ ores.arg[2] # ores.arg[3]
    \/ /\ ores.op = "apply"
       /\ ores.arg[2] # <<>>

\* C16: temporary index lifecycle.  When simple_merge or apply has created a temporary
\* index, its file does not exist when the operation ends, whether it returns a tree,
\* returns None or raises the failure of read-tree; the other files are as they were.
\* The short cuts of simple_merge and the empty patch of apply create no index and
\* touch no file.
C16_IndexDeleted ==
    ores.op \in {"simple_merge", "apply"}
    => /\ ores.created <=> C16_NeedsIndex
       /\ ores.created
              => /\ ores.index \notin index_files
                 /\ index_files = ores.files_before \ {ores.index}
                 /\ ores.outcome \in {"ok", "None", "RunException"}
       /\ ~ores.created
              => /\ index_files = ores.files_before
                 /\ ores.outcome = "ok"

\* a merge whose read-tree failed and left its index file behind, on a name of which a
\* file was there before
C16_Witness ==
    /\ ores.op = "simple_merge"
    /\ ores.created
    /\ ores.outcome = "RunException"
    /\ ores.git.read_tree = "failed with file"
    /\ ores.index \in ores.files_before

----------------------------------------------------------------------------
(* Reset (SpecReset) *)

C17_Names(t) == Range(all_patches(t))

\* C17: reset_stack is an unconditional restore.  Afterwards applied, unapplied, hidden,
\* base and head of the transaction are those of the state, every patch of the state
\* has the commit of the state, also one the transaction had with another commit, and
\* every patch the transaction had that the state has not is cleared.
C17_ResetStackRestores ==
    tres.op = "reset_stack"
    => /\ trans.applied = state.applied
       /\ trans.unapplied = state.unapplied
       /\ trans.hidden = state.hidden
       /\ trans.base = state.base
       /\ trans.head = state.head
       /\ \A pn \in C17_Names(state) : trans.patches[pn] = state.patches[pn]
       /\ \A pn \in C17_Names(tres.before) \ C17_Names(state) :
              trans.patches[pn] = NoPatch

\* a reset that cleared a patch, brought one back and gave one on both sides the commit
\* of the state
C17_Witness ==
    /\ tres.op = "reset_stack"
    /\ C17_Names(tres.before) \ C17_Names(state) # {}
    /\ C17_Names(state) \ C17_Names(tres.before) # {}
    /\ \E pn \in C17_Names(state) \cap C17_Names(tres.before) :
           tres.before.patches[pn] # state.patches[pn]

\* the reset of the example: three applied patches, a state in which the second has
\* another commit and a fourth patch is hidden, and only the second to be reset
C18_Example ==
    /\ tres.op = "reset_stack_partially"
    /\ tres.before.applied = <<PatchName(1), PatchName(2), PatchName(3)>>
    /\ state.hidden = <<PatchName(4)>>
    /\ state.patches[PatchName(2)] # tres.before.patches[PatchName(2)]
    /\ tres.only_patches = {PatchName(2)}
    /\ tres.outcome = "ok"

\* C18: reset_stack_partially touches only the patches of only_patches.  A patch
\* outside is neither created nor deleted, and its commit is never set from the state:
\* it has the commit it had, or, if it was popped and pushed again, a commit made by
\* that push.  In the example the three patches are applied in the original order
\* afterwards, the second with the commit of the state, and the fourth is not in the
\* transaction.
C18_OnlyPatchesTouched ==
    tres.op = "reset_stack_partially"
    => /\ \A pn \in (C17_Names(tres.before) \cup C17_Names(state) \cup C17_Names(trans))
                        \ tres.only_patches :
              /\ pn \in C17_Names(trans) <=> pn \in C17_Names(tres.before)
              /\ pn \in C17_Names(tres.middle) <=> pn \in C17_Names(tres.before)
              /\ pn \in C17_Names(tres.before)
                     => /\ tres.middle.patches[pn] = tres.before.patches[pn]
                        /\ \/ trans.patches[pn] = tres.before.patches[pn]
                           \/ /\ pn \in Range(tres.pushed)
                              /\ trans.patches[pn] > tres.nobj
                        /\ pn \in Range(tres.before.hidden) <=> pn \in Range(trans.hidden)
              /\ pn \notin C17_Names(tres.before) => pn \notin DOMAIN trans.patches
       /\ C18_Example
              => /\ trans.applied = tres.before.applied
                 /\ trans.patches[PatchName(2)] = state.patches[PatchName(2)]
                 /\ trans.patches[PatchName(1)] = tres.before.patches[PatchName(1)]
                 /\ PatchName(4) \notin C17_Names(trans)
                 /\ PatchName(4) \notin DOMAIN trans.patches

\* the example, done
C18_Witness ==
    /\ C18_Example
    /\ tres.pushed = <<PatchName(2), PatchName(3)>>

\* the place of a patch in the lists of a transaction
C19_Role(t, pn) ==
    IF pn \in Range(t.applied) THEN "applied"
    ELSE IF pn \in Range(t.unapplied) THEN "unapplied"
    ELSE IF pn \in Range(t.hidden) THEN "hidden"
    ELSE "absent"

\* the patches of only_patches that the transaction has and that the state has not or
\* has with another commit
C19_Changing ==
    {pn \in C17_Names(tres.before) \cap tres.only_patches :
         \/ pn \notin C17_Names(state)
         \/ tres.before.patches[pn] # state.patches[pn]}

\* C19: after the deletion and the loop over patches_to_reset, before the pushes, the
\* transaction agrees with the state on every name of only_patches: a patch of the
\* state is in the transaction with the commit of the state, a patch the transaction
\* had that the state has not is deleted, and a patch that had the commit of the state
\* already keeps it, and its place too when no patch under it changes.
C19_InScopeAgrees ==
    tres.op = "reset_stack_partially"
    => \A pn \in tres.only_patches :
           /\ pn \in C17_Names(state)
                  => /\ pn \in C17_Names(tres.middle)
                     /\ tres.middle.patches[pn] = state.patches[pn]
           /\ pn \in C17_Names(tres.before) \ C17_Names(state)
                  => /\ pn \notin C17_Names(tres.middle)
                     /\ tres.middle.patches[pn] = NoPatch
           /\ pn \notin C17_Names(tres.before) \cup C17_Names(state)
                  => pn \notin C17_Names(tres.middle)
           /\ (pn \in C17_Names(tres.before) \ C19_Changing /\ pn \in C17_Names(state))
                  => /\ tres.middle.patches[pn] = tres.before.patches[pn]
                     /\ C19_Changing \cap Range(tres.before.applied) = {}
                            => C19_Role(tres.middle, pn) = C19_Role(tres.before, pn)

\* a reset that deleted a patch, changed the commit of one and brought one back
C19_Witness ==
    /\ tres.op = "reset_stack_partially"
    /\ \E pn \in tres.only_patches :
           pn \in C17_Names(tres.before) \ C17_Names(state)
    /\ \E pn \in tres.only_patches \cap C17_Names(tres.before) \cap C17_Names(state) :
           tres.before.patches[pn] # state.patches[pn]
    /\ \E pn \in tres.only_patches :
           pn \in C17_Names(state) \ C17_Names(tres.before)

\* the patches to push: those applied before the call that are unapplied or hidden
\* before the pushes, in the original order
C20_ToPush ==
    Keep(tres.before.applied, Range(tres.middle.unapplied \o tres.middle.hidden))

\* C20: when every push succeeds, every patch that was applied before the call and
\* still exists is applied, in the original relative order.  The pushes are those of
\* the patches that were applied and are unapplied or hidden, in the original order;
\* a push that fails ends the operation with that failure, and no later patch is
\* pushed.
C20_Repush ==
    tres.op = "reset_stack_partially"
    => /\ tres.outcome = "ok"
              => /\ tres.pushed = C20_ToPush
                 /\ \A pn \in Range(tres.before.applied) \cap C17_Names(trans) :
                        pn \in Range(trans.applied)
                 /\ Keep(trans.applied, Range(tres.before.applied))
                        = Keep(tres.before.applied, C17_Names(trans))
       /\ tres.outcome # "ok"
              => /\ tres.outcome = "StackTransactionHalt"
                 /\ tres.pushed # <<>>
                 /\ tres.pushed = SubSeq(C20_ToPush, 1, Len(tres.pushed))
                 /\ \A k \in (Len(tres.pushed) + 1)..Len(C20_ToPush) :
                        C20_ToPush[k] \notin Range(trans.applied)

\* a reset whose second push of three failed
C20_Witness ==
    /\ tres.op = "reset_stack_partially"
    /\ tres.outcome = "StackTransactionHalt"
    /\ Len(tres.pushed) = 2
    /\ Len(C20_ToPush) = 3

----------------------------------------------------------------------------
(* The written log, continued (Spec) *)

\* the place in entries of the entry with the full commit c, 0 if it is not there
C21_Place(c) ==
    IF \E j \in 1..Len(entries) : entries[j].entry.commit = c
    THEN CHOOSE j \in 1..Len(entries) : entries[j].entry.commit = c
    ELSE 0

\* C21: simplified chain.  For every entry written the simplified commit has the tree
\* and the message of the full commit; it has no parent when the entry has no previous
\* entry and else one parent, the simplified commit of the previous entry; it is the
\* first parent of the full commit, so the simplified of the decoded full commit is
\* the commit made when the entry was written.
C21_SimplifiedChain ==
    \A i \in 1..Len(entries) :
        /\ objects[entries[i].entry.simplified].kind = "commit"
        /\ objects[entries[i].entry.simplified].tree = objects[entries[i].entry.commit].tree
        /\ objects[entries[i].entry.simplified].message
               = objects[entries[i].entry.commit].message
        /\ objects[entries[i].entry.commit].parents[1] = entries[i].entry.simplified
        /\ simplified(objects, from_commit(objects, entries[i].entry.commit))
               = entries[i].entry.simplified
        /\ entries[i].entry._prev.commit = 0
               => objects[entries[i].entry.simplified].parents = <<>>
        /\ entries[i].entry._prev.commit # 0
               => /\ C21_Place(entries[i].entry._prev.commit) # 0
                  /\ objects[entries[i].entry.simplified].parents
                         = <<entries[C21_Place(entries[i].entry._prev.commit)].entry.simplified>>

\* two entries, the second with other parents than its simplified commit and the
\* previous entry
C21_Witness ==
    /\ Len(entries) = 2
    /\ entries[2].entry._prev.commit = entries[1].entry.commit
    /\ Len(objects[entries[2].entry.commit].parents) > 2

\* the number of grouping commits the loop makes of n required parents: a fold takes
\* 16 parents and gives one
RECURSIVE C24_Folds(_)
C24_Folds(n) == IF n >= _max_parents THEN 1 + C24_Folds(n - _max_parents + 1) ELSE 0

\* C24 as the code has it: write_commit makes grouping commits exactly when the entry
\* requires 16 parents or more, the simplified commit taking one of the 16 places of
\* the full commit: none for 15 or fewer, and for 16 or more the loop puts one
\* grouping commit (same tree, 16 parents) for the last 16 parents until fewer than
\* 16 are left.
C24_FoldingThreshold ==
    \A i \in 1..Len(entries) :
        /\ Cardinality(entries[i].groups) = C24_Folds(Cardinality(entries[i].required))
        /\ entries[i].groups # {} <=> Cardinality(entries[i].required) >= _max_parents
        /\ \A g \in entries[i].groups :
               /\ objects[g].tree = objects[entries[i].entry.commit].tree
               /\ Len(objects[g].parents) = _max_parents
               /\ objects[g].message = Grouping
        /\ Len(objects[entries[i].entry.commit].parents) <= _max_parents

\* an entry that requires exactly 16 parents, written with one grouping commit
C24_Witness ==
    \E i \in 1..Len(entries) :
        /\ Cardinality(entries[i].required) = _max_parents
        /\ Cardinality(entries[i].groups) = 1

\* C24 as stated: grouping commits are made only if the entry requires more than 16
\* parents; with 16 or fewer there is none.
C24_FoldsOnlyOverCap ==
    \A i \in 1..Len(entries) :
        Cardinality(entries[i].required) <= _max_parents => entries[i].groups = {}

\* the blob of the patch pn in the patches tree of the log commit c
C22_Blob(c, pn) == objects[objects[objects[c].tree].entries[<<"patches">>]].entries[pn]

\* the patches of the entry e whose commit is the commit of a patch of the entry p
C22_Kept(e, p) == {pn \in DOMAIN e.patches : e.patches[pn] \in Range(p.patches)}

\* the entry e, written after the entry p, has for each kept patch the blob that the
\* tree of p has for the same commit
C22_Reused(e, p) ==
    \A pn \in C22_Kept(e, p) :
        \E n \in DOMAIN p.patches :
            /\ p.patches[n] = e.patches[pn]
            /\ C22_Blob(e.commit, pn) = C22_Blob(p.commit, n)

\* of the objects that the write of e after p stored beyond the first nobj, none is the
\* blob of a kept patch, and a blob is the metadata or the patch file of a new commit
C22_Stored(e, p, nobj) ==
    /\ \A pn \in C22_Kept(e, p) : C22_Blob(e.commit, pn) <= nobj
    /\ \A k \in (nobj + 1)..Len(objects) :
           objects[k].kind = "blob" =>
               \/ objects[objects[e.commit].tree].entries[<<"meta">>] = k
               \/ \E pn \in DOMAIN e.patches \ C22_Kept(e, p) : C22_Blob(e.commit, pn) = k

\* C22: dedup by commit identity when an entry with a previous entry is written.  A
\* patch whose commit is the commit of a patch of the previous entry, of the same name
\* or another, has the blob object that the previous entry's tree has for that commit,
\* and is none of the objects the write stored; a blob stored by the write is the
\* metadata or the patch file of a commit that no patch of the previous entry has.
C22_DedupByCommit ==
    /\ \A i \in 2..Len(entries) :
           entries[i].entry._prev.commit = entries[i - 1].entry.commit
               => C22_Reused(entries[i].entry, entries[i - 1].entry)
    /\ \A i \in 1..Len(entries) :
           entries[i].entry._prev.commit # 0
               => i > 1 /\ entries[i].entry._prev.commit = entries[i - 1].entry.commit
    /\ res.op = "log_entry" /\ Len(objects) > res.nobj /\ res.ref # 0
           => C22_Stored(entries[Len(entries)].entry,
                         entries[Len(entries) - 1].entry, res.nobj)

\* a second entry written after a rename and a refresh: the refreshed patch has a new
\* blob, the renamed patch the blob that the previous entry has under the old name
C22_Witness ==
    /\ Len(entries) = 2
    /\ res.op = "log_entry" /\ Len(objects) > res.nobj /\ res.ref # 0
    /\ \E pn, qn \in DOMAIN entries[2].entry.patches :
           /\ pn \in C22_Kept(entries[2].entry, entries[1].entry)
           /\ pn \notin DOMAIN entries[1].entry.patches
           /\ qn \notin C22_Kept(entries[2].entry, entries[1].entry)
           /\ C22_Blob(entries[2].entry.commit, pn) <= res.nobj
           /\ C22_Blob(entries[2].entry.commit, qn) > res.nobj

\* the full commits met from the commit c by decoding each and going to its Previous,
\* n at most
RECURSIVE C27_Walk(_, _)
C27_Walk(c, n) ==
    IF c = 0 \/ n = 0 THEN <<>>
    ELSE <<c>> \o C27_Walk(from_commit(objects, c)._prev.commit, n - 1)

\* the ref was last moved by log_entry, not by another writer of the log
C27_OwnTip == gitref = 0 \/ objects[gitref].message # << <<"foreign">> >>

\* C27: the log is an append-only chain.  Unless another writer moved it, the ref
\* points to the entry written last (to nothing when none was written); the first
\* entry written has no Previous and every other has the full commit of the entry
\* written before it, which is what the ref held when it was written; going from the
\* tip to Previous, decoding each commit of the store, meets all entries written, last
\* to first, and ends at the one with no Previous.
C27_AppendOnlyChain ==
    /\ \A i \in 1..Len(entries) :
           entries[i].entry._prev.commit = IF i = 1 THEN 0 ELSE entries[i - 1].entry.commit
    /\ C27_OwnTip => gitref = IF entries = <<>> THEN 0 ELSE Last(entries).entry.commit
    /\ res.op = "log_entry" /\ res.outcome = "written"
           => /\ Last(entries).entry._prev.commit = res.ref
              /\ gitref = Last(entries).entry.commit
    /\ entries # <<>>
           => C27_Walk(Last(entries).entry.commit, MaxEntries + 1)
                  = Tup(Reverse([i \in 1..Len(entries) |-> entries[i].entry.commit]))

\* a log of as many entries as the bound allows, the ref at the last
C27_Witness ==
    /\ Len(entries) = MaxEntries
    /\ res.op = "log_entry" /\ res.outcome = "written"
    /\ gitref = Last(entries).entry.commit
    /\ Len(C27_Walk(gitref, MaxEntries + 1)) = MaxEntries

----------------------------------------------------------------------------
(* Decoding, continued (SpecParse) *)

\* the names of the three lists of the entry e, one after the other
C23_Names(e) == e.applied \o e.unapplied \o e.hidden

\* C23: the patches of a LogEntry are exactly the names of its applied, unapplied and
\* hidden lists, and no name is twice in the lists; metadata that lists a name twice
\* is not decoded to an entry that has it twice.
C23_ListsDisjoint ==
    res.op = "from_commit" /\ parsed.err = "none" =>
        /\ DOMAIN parsed.patches = Range(C23_Names(parsed))
        /\ \A i, j \in 1..Len(C23_Names(parsed)) :
               C23_Names(parsed)[i] = C23_Names(parsed)[j] => i = j

----------------------------------------------------------------------------
(* reset_stack_partially, continued (SpecReset) *)

\* the patches of the transaction before the call that are in only_patches and are not
\* in the state or have another commit there
C25_Touched ==
    {pn \in Range(all_patches(tres.before)) \cap tres.only_patches :
         \/ pn \notin Range(all_patches(state))
         \/ tres.before.patches[pn] # state.patches[pn]}

\* the patches that the deletion and the loop over patches_to_reset deleted or gave
\* another commit
C25_Changed ==
    {pn \in Range(all_patches(tres.before)) :
         \/ pn \notin Range(all_patches(tres.middle))
         \/ tres.middle.patches[pn] # tres.before.patches[pn]}

\* C25: pop before change.  The one pop_patches of reset_stack_partially comes first: it
\* deletes nothing and changes no commit, it leaves applied the patches below the
\* first applied patch that is in only_patches and is to be deleted or differs from
\* the state, and no more; the deletion and the updates that follow change only
\* patches that the pop left unapplied or hidden, and leave the applied list of the
\* pop as it is, so the pushes find it.
C25_PopBeforeChange ==
    tres.op = "reset_stack_partially" =>
        /\ tres.popped.patches = tres.before.patches
        /\ Range(all_patches(tres.popped)) = Range(all_patches(tres.before))
        /\ tres.popped.applied
               = SubSeq(tres.before.applied, 1,
                        IF FirstIn(tres.before.applied, C25_Touched) = 0
                        THEN Len(tres.before.applied)
                        ELSE FirstIn(tres.before.applied, C25_Touched) - 1)
        /\ C25_Changed \cap Range(tres.popped.applied) = {}
        /\ C25_Changed \subseteq C25_Touched
        /\ tres.middle.applied = tres.popped.applied
        /\ \A i \in 1..Len(tres.pushed) : tres.pushed[i] \notin Range(tres.popped.applied)

\* an applied patch with another commit in the state, below an applied patch to delete:
\* both are popped, then one is reset and the other deleted
C25_Witness ==
    /\ tres.op = "reset_stack_partially"
    /\ \E i, j \in 1..Len(tres.before.applied) :
           /\ i < j
           /\ tres.before.applied[i] \in C25_Changed \cap Range(all_patches(tres.middle))
           /\ tres.before.applied[j] \in C25_Changed \ Range(all_patches(tres.middle))
    /\ tres.popped.applied # <<>>
    /\ tres.pushed # <<>>

\* the number of places of the name pn in the list q
C26_Count(q, pn) == Cardinality({i \in 1..Len(q) : q[i] = pn})

\* the patches to create: in only_patches and in the state, not in the transaction
C26_ToCreate ==
    (Range(all_patches(state)) \cap tres.only_patches) \ Range(all_patches(tres.before))

\* C26: a patch to create is appended once to the hidden list of the transaction if
\* the state has it hidden and once to the unapplied list if the state has it
\* unapplied, after the patches that are there, and to no other list; the pushes do
\* not move it.
C26_CreatedWhereListed ==
    tres.op = "reset_stack_partially" =>
        \A pn \in C26_ToCreate :
            /\ pn \in Range(state.hidden)
                   => /\ C26_Count(tres.middle.hidden, pn) = 1
                      /\ C26_Count(tres.middle.unapplied \o tres.middle.applied, pn) = 0
                      /\ C26_Count(trans.hidden, pn) = 1
                      /\ C26_Count(trans.unapplied \o trans.applied, pn) = 0
                      /\ \A i, j \in 1..Len(tres.middle.hidden) :
                             /\ tres.middle.hidden[i] = pn
                             /\ tres.middle.hidden[j] \notin C26_ToCreate
                             => j < i
            /\ pn \in Range(state.unapplied)
                   => /\ C26_Count(tres.middle.unapplied, pn) = 1
                      /\ C26_Count(tres.middle.hidden \o tres.middle.applied, pn) = 0
                      /\ C26_Count(trans.unapplied, pn) = 1
                      /\ C26_Count(trans.hidden \o trans.applied, pn) = 0
                      /\ \A i, j \in 1..Len(tres.middle.unapplied) :
                             /\ tres.middle.unapplied[i] = pn
                             /\ tres.middle.unapplied[j] \notin C26_ToCreate
                             => j < i

\* a call that creates one patch the state has hidden and one it has unapplied, next to
\* patches that are there
C26_Witness ==
    /\ tres.op = "reset_stack_partially"
    /\ \E pn, qn \in C26_ToCreate :
           /\ pn \in Range(state.hidden) /\ pn \in Range(trans.hidden)
           /\ qn \in Range(state.unapplied) /\ qn \in Range(trans.unapplied)
    /\ Len(trans.unapplied) > 1

====
